---- MODULE Spec2Model ----
(***************************************************************************)
(* A state-machine model of emlabpkg's measurement orchestration:          *)
(* sweep/sweep.py (Station, _interruptible, _sec_to_str).                  *)
(*                                                                         *)
(* One Station lives in one Python process.  The only asynchronous event   *)
(* is SIGINT, which CPython delivers between two bytecodes of the main     *)
(* thread: the action Signal may therefore fire between any two steps of   *)
(* a running call.  The collaborators db.Writer and plot.Plotter are seen  *)
(* through the calls Station makes on them (rows, plotted, metadata,       *)
(* blobs); device access is seen through the log io.                       *)
(***************************************************************************)
EXTENDS Integers, Sequences, FiniteSets, TLC

\* ---------------------------------------------------------------- bounds
\* longest setpoint list handed to sweep / megasweep / sweep_vna_2d
MaxLen == 2
\* most follow_param calls on the Station
MaxParams == 2
\* most follow_trace calls on the Station
MaxTraces == 2
\* most points of the instrument's frequency grid
MaxPoints == 2
\* largest max_duration handed to watch
MaxDuration == 1
\* cap on the rows of one watch call (watch itself is unbounded)
MaxWatchRows == 2

\* ------------------------------------------------------- the environment
\* Parameters that can be followed: "p2" is sweep_test.py's _DummyParam (a
\* full_name and a call, no .instrument attribute), "zm_r" is a parameter of
\* a ZM2376 instrument, "sr_x" one of an SR lock-in.
NoInstrument == "<no attribute>"

InstrumentOf(p) ==
    CASE p = "zm_r" -> "ZM2376_1"
      [] p = "sr_x" -> "SR830_1"
      [] OTHER      -> NoInstrument

\* The raw value a read of parameter p returns (before the gain division).
ParamValue(p) ==
    CASE p = "p2"   -> 1
      [] p = "zm_r" -> 4
      [] p = "sr_x" -> 6
      [] OTHER      -> 0

\* (parameter, gain) pairs offered to follow_param; gains divide exactly.
FollowChoices == { <<"p2", 1>>, <<"zm_r", 2>> }

\* The traces of the instrument, (channel name, trace name), in the order
\* in which they are created (ZNLE14Channel.create_new_trace).
TraceOrder ==
    << <<"Ch1", "Trc1">>, <<"Ch1", "Trc2">>, <<"Ch1", "Trc3">>, <<"Ch1", "Trc4">> >>

\* The k-th setpoint of a swept axis (not monotone, so order is observable).
FastVal(k) == 10 * ((2 * k) % 5)
SlowVal(k) == 100 + 10 * ((3 * k) % 7)
FreqVal(k) == 1000 * k

FastList(n) == [k \in 1..n |-> FastVal(k)]
SlowList(n) == [k \in 1..n |-> SlowVal(k)]
FreqList(n) == [k \in 1..n |-> FreqVal(k)]

\* ------------------------------------------------------------- helpers
\* dict[key] = value on an insertion-keyed mapping
Put(m, k, v) == [x \in (DOMAIN m) \cup {k} |-> IF x = k THEN v ELSE m[x]]

EmptyMap == [x \in {} |-> 0]

RECURSIVE Flatten(_)
Flatten(ss) == IF ss = <<>> THEN <<>> ELSE Head(ss) \o Flatten(Tail(ss))

\* One entry of the log of what the call did to its collaborators:
\* op is "write" (setpoint write), "read" (parameter or instrument read),
\* "activate" / "get" (trace), "row" (w.add_point), "plot" (p.add_point*),
\* "flag" (a read of interrupt_requested; val is 1 when it was seen true).
Ev(op, who, val) == [op |-> op, who |-> who, val |-> val]

RECURSIVE Dedup(_)
Dedup(ss) ==
    IF ss = <<>> THEN <<>>
    ELSE LET init == Dedup(SubSeq(ss, 1, Len(ss) - 1))
             last == ss[Len(ss)]
         IN  IF \E k \in 1..Len(init) : init[k] = last
               THEN init ELSE Append(init, last)

\* floor(log10(x)) for x >= 1; exact on the powers of ten used below
RECURSIVE Log10(_)
Log10(x) == IF x < 10 THEN 0 ELSE 1 + Log10(x \div 10)

\* The k-th in-phase / quadrature value a trace read returns; chosen so
\* that i^2 + q^2 is a power of ten.
IVal(t, k) ==
    CASE k = 1 -> IF t = "Trc1" THEN 1 ELSE 3
      [] k = 2 -> IF t = "Trc1" THEN 6 ELSE 8
      [] k = 3 -> IF t = "Trc1" THEN 10 ELSE 30
      [] OTHER -> 1

QVal(t, k) ==
    CASE k = 1 -> IF t = "Trc1" THEN 3 ELSE 1
      [] k = 2 -> IF t = "Trc1" THEN 8 ELSE 6
      [] k = 3 -> IF t = "Trc1" THEN 30 ELSE 10
      [] OTHER -> 0


VARIABLES
    params, traces, trace_cols, interrupt_requested,
    handler, old_handler,
    pc, fn, slow_v, fast_v, max_duration, flag_on_entry,
    i, j, tk, now, elapsed,
    traces_data, traces_points, slow_measurement,
    metadata, rows, plotted, plot_cols, blobs, snapshots, data,
    writerHeld, plotterHeld,
    io, signalled, sigAt, sigRows, sigIo, brokeOut, exc,
    BASEDIR, cwd, basedir, built, writer_root,
    instr, sent, got, setpoints,
    duration, time_taken

\* the module's BASEDIR, the process's current directory, the Station's
\* _basedir, and what Station.__init__ was given and found when it ran
config == << BASEDIR, cwd, basedir, built >>
\* writer_root is the directory the most recent db.Writer was opened on
\* the instruments' registers, the last state value given to and answered
\* by each driver, and what get_freq_setpoints last answered
drivers == << instr, sent, got, setpoints >>
\* a number of seconds and the text _sec_to_str made of it
printed == << duration, time_taken >>
bench == << drivers, printed >>
station == << params, traces, trace_cols, config, writer_root, bench >>
process == << handler, old_handler >>
\* the call and its arguments; flag_on_entry is what interrupt_requested
\* held when the wrapper was entered, before line 44 overwrote it
callArgs == << fn, slow_v, max_duration, flag_on_entry >>
loopv == << i, j, tk >>
vnav == << traces_data, traces_points, slow_measurement >>
\* what the run attached to the writer, and what p.send_image() answered
attached == << blobs, snapshots >>
outputs == << metadata, rows, plotted, plot_cols, attached >>
held == << writerHeld, plotterHeld >>
history == << signalled, sigAt, sigRows, sigIo, brokeOut >>

vars == << station, interrupt_requested, process, pc, callArgs, fast_v,
           loopv, now, elapsed, vnav, outputs, data, held, io, history, exc >>

\* The state of a process that holds a fresh Station and runs no call.
NoCall ==
    /\ pc = "idle"
    /\ fn = "none"
    /\ slow_v = <<>>
    /\ fast_v = <<>>
    /\ max_duration = -1
    /\ flag_on_entry = FALSE
    /\ i = 0
    /\ j = 0
    /\ tk = 0
    /\ now = 0
    /\ elapsed = 0
    /\ traces_data = <<>>
    /\ traces_points = <<>>
    /\ slow_measurement = <<>>
    /\ metadata = EmptyMap
    /\ rows = <<>>
    /\ plotted = <<>>
    /\ plot_cols = <<>>
    /\ blobs = {}
    /\ snapshots = <<>>
    /\ data = <<>>
    /\ writerHeld = FALSE
    /\ plotterHeld = FALSE
    /\ io = <<>>
    /\ signalled = FALSE
    /\ sigAt = "none"
    /\ sigRows = 0
    /\ sigIo = 0
    /\ brokeOut = FALSE
    /\ exc = "none"

\* Python's None, for a path
NoPath == "None"

\* RootFor with the module's default taking precedence over the argument
RootFor_DefaultFirst(arg, default, dir) ==
    IF default # NoPath THEN default
    ELSE IF arg # NoPath THEN arg
    ELSE dir

\* Station.__init__, lines 63-69, given the argument, the module's BASEDIR
\* and os.getcwd()
RootFor(arg, default, dir) ==
    IF arg # NoPath THEN arg
    ELSE IF default # NoPath THEN default
    ELSE dir

\* nothing given to or answered by a driver yet
NoState == [done |-> FALSE, val |-> FALSE]
NoSetpoints == [raised |-> "none", val |-> <<>>]

\* The instruments as the runs of the Station find them: a linear sweep
\* from 1 kHz, averaging and DC bias off; no duration printed yet.
InstrAtRest ==
    /\ instr = [znle_aver |-> "0", zm_bias |-> "0", swe_type |-> "LIN",
                freq_start |-> 1000, freq_stop |-> 100000, sweep_points |-> 2]
    /\ sent = [znle |-> NoState, zm |-> NoState]
    /\ got = [znle |-> NoState, zm |-> NoState]
    /\ setpoints = NoSetpoints

AtRest ==
    /\ InstrAtRest
    /\ duration = 0
    /\ time_taken = ""

\* Station() in a process where set_basedir was never called
Fresh ==
    /\ params = <<>>
    /\ traces = <<>>
    /\ trace_cols = <<>>
    /\ interrupt_requested = FALSE
    /\ handler = "default_int_handler"
    /\ old_handler = "default_int_handler"
    /\ BASEDIR = NoPath
    /\ cwd = "/home"
    /\ built = [arg |-> NoPath, default |-> NoPath, dir |-> "/home"]
    /\ basedir = RootFor(NoPath, NoPath, "/home")
    /\ writer_root = NoPath
    /\ NoCall

Init == Fresh /\ AtRest

\* ------------------------------------------------ Station registration
\* Measure without the division by the gain
Measure_NoGain == [k \in 1..Len(params) |-> ParamValue(params[k][1])]

\* Station._measure: one read of every followed parameter, in order,
\* each divided by its gain.
Measure == [k \in 1..Len(params) |-> ParamValue(params[k][1]) \div params[k][2]]

MeasureReads == [k \in 1..Len(params) |-> Ev("read", params[k][1], 0)]

ParamNames == [k \in 1..Len(params) |-> params[k][1]]

\* Station._col_names
ColNames == IF traces = <<>> THEN ParamNames ELSE ParamNames \o trace_cols

\* follow_trace, lines 95-99: the three column names of a trace,
\* f'znle.{chan_name.lower()}.{trac_nam.lower()}' + '_i' / '_q' / ''
TraceColsOf(t) ==
    CASE t = <<"Ch1", "Trc1">> ->
           << "znle.ch1.trc1_i", "znle.ch1.trc1_q", "znle.ch1.trc1" >>
      [] t = <<"Ch1", "Trc2">> ->
           << "znle.ch1.trc2_i", "znle.ch1.trc2_q", "znle.ch1.trc2" >>
      [] t = <<"Ch1", "Trc3">> ->
           << "znle.ch1.trc3_i", "znle.ch1.trc3_q", "znle.ch1.trc3" >>
      [] OTHER ->
           << "znle.ch1.trc4_i", "znle.ch1.trc4_q", "znle.ch1.trc4" >>

\* Traces offered to follow_trace: the instrument's traces are followed in
\* the order of their creation, each once.
TraceChoices == { TraceOrder[Len(traces) + 1] }

FollowParamWith(choices) ==
    /\ pc = "idle"
    /\ Len(params) < MaxParams
    /\ \E c \in choices : params' = Append(params, c)
    /\ UNCHANGED << traces, trace_cols, config, writer_root, bench,
                    interrupt_requested, process, pc,
                    callArgs, fast_v, loopv, now, elapsed, vnav, outputs,
                    data, held, io, history, exc >>

\* FollowTraceWith that records the name column before the _i and _q columns
FollowTraceWith_NameFirst(choices) ==
    /\ pc = "idle"
    /\ Len(traces) < MaxTraces
    /\ \E t \in choices :
         /\ traces' = Append(traces, <<t, 1>>)
         /\ trace_cols' = trace_cols \o << TraceColsOf(t)[3], TraceColsOf(t)[1],
                                           TraceColsOf(t)[2] >>
    /\ UNCHANGED << params, config, writer_root, bench,
                    interrupt_requested, process, pc,
                    callArgs, fast_v, loopv, now, elapsed, vnav, outputs,
                    data, held, io, history, exc >>

\* Station.follow_trace, lines 93-100
FollowTraceWith(choices) ==
    /\ pc = "idle"
    /\ Len(traces) < MaxTraces
    /\ \E t \in choices :
         /\ traces' = Append(traces, <<t, 1>>)
         /\ trace_cols' = trace_cols \o TraceColsOf(t)
    /\ UNCHANGED << params, config, writer_root, bench,
                    interrupt_requested, process, pc,
                    callArgs, fast_v, loopv, now, elapsed, vnav, outputs,
                    data, held, io, history, exc >>

follow_param == FollowParamWith(FollowChoices)

follow_trace == FollowTraceWith(TraceChoices)

\* ------------------------------------------------------- exits by error
\* Raise with the exception caught inside the entry point: the with block
\* is left as on return
Raise_Caught(e) ==
    /\ pc' = "close"
    /\ exc' = e
    /\ UNCHANGED << station, interrupt_requested, process, callArgs, fast_v,
                    loopv, now, elapsed, vnav, outputs, data, held, io,
                    history >>

\* An exception raised inside the with block: Python runs __exit__ of the
\* plotter and of the writer and the exception leaves the entry point and,
\* for the decorated ones, _interruptible's wrapper (line 48), which has no
\* try/finally: line 49 is not reached.
Raise(e) ==
    /\ pc' = "raised"
    /\ exc' = e
    /\ writerHeld' = FALSE
    /\ plotterHeld' = FALSE
    /\ UNCHANGED << station, interrupt_requested, process, callArgs, fast_v,
                    loopv, now, elapsed, vnav, outputs, data, io, history >>

\* The program points at which a device command is in flight.
DevicePcs == {"prov", "set", "sset", "fset", "meas", "smeas", "tact", "tread"}

\* Any device command may fail (spec 4.1: no retries, the failure propagates).
DeviceRaise ==
    /\ pc \in DevicePcs
    /\ ~(fn = "sweep_vna_2d" /\ pc = "meas")
    /\ Raise("DeviceError")

\* ------------------------------------------------------------- SIGINT
\* Delivery of SIGINT while a call runs (any number of times; the history
\* variables record the first delivery).  With wrapper's handler installed
\* the flag is set (line 46); with Python's default handler installed
\* KeyboardInterrupt is raised at the interrupted program point.
Signal ==
    /\ pc \notin {"idle", "returned", "raised"}
    /\ signalled' = TRUE
    /\ sigAt' = IF ~signalled THEN pc ELSE sigAt
    /\ sigRows' = IF ~signalled THEN Len(rows) ELSE sigRows
    /\ sigIo' = IF ~signalled THEN Len(io) ELSE sigIo
    /\ UNCHANGED brokeOut
    /\ IF handler = "handler"
         THEN /\ interrupt_requested' = TRUE
              /\ UNCHANGED << pc, exc, held >>
         ELSE /\ pc' = "raised"
              /\ exc' = "KeyboardInterrupt"
              /\ writerHeld' = FALSE
              /\ plotterHeld' = FALSE
              /\ UNCHANGED interrupt_requested
    /\ UNCHANGED << station, process, callArgs, fast_v, loopv, now, elapsed,
                    vnav, outputs, data, io >>

\* -------------------------------------------------------- entry points
\* Station.measure is not decorated: the call goes straight to its body.
CallMeasure ==
    /\ pc = "idle"
    /\ fn' = "measure"
    /\ pc' = "open"
    /\ UNCHANGED << station, interrupt_requested, process, slow_v,
                    max_duration, flag_on_entry, fast_v, loopv, now, elapsed,
                    vnav, outputs,
                    data, held, io, history, exc >>

\* WrapperEnter that leaves the flag as the earlier runs left it
WrapperEnter_NoReset(f, slow, fast, dur) ==
    /\ pc = "idle"
    /\ fn' = f
    /\ slow_v' = slow
    /\ fast_v' = fast
    /\ max_duration' = dur
    /\ flag_on_entry' = interrupt_requested
    /\ pc' = "install"
    /\ UNCHANGED << station, interrupt_requested, process, loopv, now,
                    elapsed, vnav, outputs, data, held, io, history, exc >>

\* _interruptible.wrapper, line 44, on entry of a decorated method.
WrapperEnter(f, slow, fast, dur) ==
    /\ pc = "idle"
    /\ fn' = f
    /\ slow_v' = slow
    /\ fast_v' = fast
    /\ max_duration' = dur
    /\ flag_on_entry' = interrupt_requested
    /\ interrupt_requested' = FALSE
    /\ pc' = "install"
    /\ UNCHANGED << station, process, loopv, now, elapsed, vnav, outputs,
                    data, held, io, history, exc >>

CallWatch ==
    \E d \in (-1)..MaxDuration : WrapperEnter("watch", <<>>, <<>>, d)

CallSweep ==
    \E n \in 0..MaxLen : WrapperEnter("sweep", <<>>, FastList(n), -1)

CallMegasweep ==
    \E s \in 0..MaxLen, f \in 0..MaxLen :
        WrapperEnter("megasweep", SlowList(s), FastList(f), -1)

CallSweepVna1d == WrapperEnter("sweep_vna_1d", <<>>, <<>>, -1)

CallSweepVna2d ==
    \E s \in 0..MaxLen : WrapperEnter("sweep_vna_2d", SlowList(s), <<>>, -1)

\* InstallHandler that leaves the process's handler in place
InstallHandler_Skipped ==
    /\ pc = "install"
    /\ old_handler' = handler
    /\ pc' = "open"
    /\ UNCHANGED << station, interrupt_requested, handler, callArgs, fast_v,
                    loopv, now, elapsed, vnav, outputs, data, held, io,
                    history, exc >>

\* _interruptible.wrapper, line 47: install handler, keep the previous one.
InstallHandler ==
    /\ pc = "install"
    /\ old_handler' = handler
    /\ handler' = "handler"
    /\ pc' = "open"
    /\ UNCHANGED << station, interrupt_requested, callArgs, fast_v, loopv,
                    now, elapsed, vnav, outputs, data, held, io, history, exc >>

\* with db.Writer(self._basedir) as w, self._plotter as p  (measure: w only)
Open ==
    /\ pc = "open"
    /\ writerHeld' = TRUE
    /\ writer_root' = basedir
    /\ plotterHeld' = (fn # "measure")
    /\ pc' = "assemble"
    /\ UNCHANGED << params, traces, trace_cols, config, bench,
                    interrupt_requested,
                    process, callArgs, fast_v, loopv, now, elapsed, vnav,
                    outputs, data, io, history, exc >>

\* The caller takes the SweepResult (or the exception) and goes on.
Release ==
    /\ pc \in {"returned", "raised"}
    /\ pc' = "idle"
    /\ fn' = "none"
    /\ slow_v' = <<>>
    /\ fast_v' = <<>>
    /\ max_duration' = -1
    /\ flag_on_entry' = FALSE
    /\ i' = 0
    /\ j' = 0
    /\ tk' = 0
    /\ now' = 0
    /\ elapsed' = 0
    /\ traces_data' = <<>>
    /\ traces_points' = <<>>
    /\ slow_measurement' = <<>>
    /\ metadata' = EmptyMap
    /\ rows' = <<>>
    /\ plotted' = <<>>
    /\ plot_cols' = <<>>
    /\ blobs' = {}
    /\ snapshots' = <<>>
    /\ data' = <<>>
    /\ writerHeld' = FALSE
    /\ plotterHeld' = FALSE
    /\ io' = <<>>
    /\ signalled' = FALSE
    /\ sigAt' = "none"
    /\ sigRows' = 0
    /\ sigIo' = 0
    /\ brokeOut' = FALSE
    /\ exc' = "none"
    /\ UNCHANGED << station, interrupt_requested, process >>

\* ------------------------------------------------- metadata assembly
RECURSIVE PutAll(_, _)
PutAll(m, kvs) ==
    IF kvs = <<>> THEN m
    ELSE PutAll(Put(m, Head(kvs)[1], Head(kvs)[2]), Tail(kvs))

\* InstrumentsUsed without the 'not in instruments_used' test
InstrumentsUsed_All == [k \in 1..Len(params) |-> InstrumentOf(params[k][1])]

\* lines 166-172: str(p.instrument) of every followed parameter, first
\* occurrences in registration order
InstrumentsUsed == Dedup([k \in 1..Len(params) |-> InstrumentOf(params[k][1])])

\* a followed parameter without .instrument makes line 169 raise
LacksInstrument == \E k \in 1..Len(params) : InstrumentOf(params[k][1]) = NoInstrument

\* '"ZM2376" in instrument_name' and '"SR" in instrument_name'
MatchesZM(inst) == inst \in {"ZM2376_1"}
MatchesSR(inst) == inst \in {"SR830_1"}

CalibrationsKey(inst) == IF inst = "ZM2376_1" THEN "calibrations (ZM2376_1)" ELSE "calibrations (?)"
VariablesKey(inst) == IF inst = "ZM2376_1" THEN "variables (ZM2376_1)" ELSE "variables (?)"
FrequencyKey(inst) == IF inst = "SR830_1" THEN "frequency (SR830_1)" ELSE "frequency (?)"
AmplitudeKey(inst) == IF inst = "SR830_1" THEN "sine out amplitude (SR830_1)" ELSE "sine out amplitude (?)"

\* lines 186-201 for one instrument: the device reads ...
ProvReads(inst) ==
    (IF MatchesZM(inst)
       THEN << Ev("read", inst, 1), Ev("read", inst, 2), Ev("read", inst, 3),
               Ev("read", inst, 4), Ev("read", inst, 5) >>
       ELSE <<>>)
    \o
    (IF MatchesSR(inst)
       THEN << Ev("read", inst, 6), Ev("read", inst, 7) >>
       ELSE <<>>)

\* ... and the metadata entries
ProvEntries(inst) ==
    (IF MatchesZM(inst)
       THEN << <<CalibrationsKey(inst), "states">>, <<VariablesKey(inst), "labels">> >>
       ELSE <<>>)
    \o
    (IF MatchesSR(inst)
       THEN << <<FrequencyKey(inst), "f">>, <<AmplitudeKey(inst), "a">> >>
       ELSE <<>>)

AllProvReads == Flatten([k \in 1..Len(InstrumentsUsed) |-> ProvReads(InstrumentsUsed[k])])
AllProvEntries == Flatten([k \in 1..Len(InstrumentsUsed) |-> ProvEntries(InstrumentsUsed[k])])

\* Station.measure, lines 120-123
AssembleMeasure ==
    /\ pc = "assemble"
    /\ fn = "measure"
    /\ metadata' = PutAll(metadata, << <<"type", "0D">>,
                                       <<"columns", <<"time">> \o ColNames>>,
                                       <<"time", now>> >>)
    /\ now' = now + 1
    /\ pc' = "meas"
    /\ UNCHANGED << station, interrupt_requested, process, callArgs, fast_v,
                    loopv, elapsed, vnav, rows, plotted, plot_cols, attached,
                    data, held, io, history, exc >>

\* Station.watch, lines 131-139
AssembleWatch ==
    /\ pc = "assemble"
    /\ fn = "watch"
    /\ metadata' = PutAll(metadata, << <<"type", "1D">>,
                                       <<"delay", 0>>,
                                       <<"max_duration", max_duration>>,
                                       <<"columns", <<"time">> \o ColNames>>,
                                       <<"interrupted", FALSE>>,
                                       <<"start_time", now>> >>)
    /\ plot_cols' = Append(plot_cols, <<"time">> \o ColNames)
    /\ now' = now + 1
    /\ elapsed' = 0
    /\ pc' = "whead"
    /\ UNCHANGED << station, interrupt_requested, process, callArgs, fast_v,
                    loopv, vnav, rows, plotted, attached, data, held, io,
                    history, exc >>

\* Station.sweep, lines 166-184
AssembleSweep ==
    /\ pc = "assemble"
    /\ fn = "sweep"
    /\ IF LacksInstrument
         THEN Raise("AttributeError")
         ELSE /\ metadata' = PutAll(metadata,
                    << <<"computer used", "host">>,
                       <<"measurement code ran from file", "file">>,
                       <<"instruments used", InstrumentsUsed>>,
                       <<"type", "1D">>,
                       <<"delay", 0>>,
                       <<"param", "p1">>,
                       <<"columns", <<"time", "p1">> \o ColNames>> >>)
              /\ pc' = "prov"
              /\ UNCHANGED << station, interrupt_requested, process, callArgs,
                              fast_v, loopv, now, elapsed, vnav, rows, plotted,
                              plot_cols, attached, data, held, io, history, exc >>

\* Station.megasweep, lines 240-261
AssembleMegasweep ==
    /\ pc = "assemble"
    /\ fn = "megasweep"
    /\ IF LacksInstrument
         THEN Raise("AttributeError")
         ELSE /\ metadata' = PutAll(metadata,
                    << <<"computer used", "host">>,
                       <<"measurement code ran from file", "file">>,
                       <<"instruments used", InstrumentsUsed>>,
                       <<"type", "2D">>,
                       <<"slow_delay", 0>>,
                       <<"fast_delay", 0>>,
                       <<"slow_param", "p0">>,
                       <<"fast_param", "p1">>,
                       <<"columns", <<"time", "p0", "p1">> \o ColNames>> >>)
              /\ pc' = "prov"
              /\ UNCHANGED << station, interrupt_requested, process, callArgs,
                              fast_v, loopv, now, elapsed, vnav, rows, plotted,
                              plot_cols, attached, data, held, io, history, exc >>

\* Station.sweep_vna_1d, lines 324-352.  Line 333 reads the frequency grid
\* of the instrument of the first followed trace: its length P is the
\* instrument's, and every trace read returns P points.
AssembleSweepVna1d ==
    /\ pc = "assemble"
    /\ fn = "sweep_vna_1d"
    /\ IF LacksInstrument
         THEN Raise("AttributeError")
         ELSE IF traces = <<>>
         THEN Raise("IndexError")
         ELSE /\ \E P \in 0..MaxPoints : fast_v' = FreqList(P)
              /\ io' = Append(io, Ev("read", "znle.freq_setpoints", 0))
              /\ metadata' = PutAll(metadata,
                    << <<"computer used", "host">>,
                       <<"measurement code ran from file", "file">>,
                       <<"instruments used", InstrumentsUsed>>,
                       <<"type", "1D_VNA_Sweep">>,
                       <<"delay", 0>>,
                       <<"trace_information", "trace_infos">>,
                       <<"columns", <<"time", "znle_frequency">> \o ColNames>> >>)
              /\ pc' = "prov"
              /\ UNCHANGED << station, interrupt_requested, process, callArgs,
                              loopv, now, elapsed, vnav, rows, plotted,
                              plot_cols, attached, data, held, history, exc >>

\* Station.sweep_vna_2d, lines 431-463
AssembleSweepVna2d ==
    /\ pc = "assemble"
    /\ fn = "sweep_vna_2d"
    /\ IF LacksInstrument
         THEN Raise("AttributeError")
         ELSE IF traces = <<>>
         THEN Raise("IndexError")
         ELSE /\ \E P \in 0..MaxPoints : fast_v' = FreqList(P)
              /\ io' = Append(io, Ev("read", "znle.freq_setpoints", 0))
              /\ metadata' = PutAll(metadata,
                    << <<"computer used", "host">>,
                       <<"measurement code ran from file", "file">>,
                       <<"instruments used", InstrumentsUsed>>,
                       <<"type", "2D_VNA_Sweep">>,
                       <<"slow_delay", 0>>,
                       <<"fast_delay", 0>>,
                       <<"slow_param", "p0">>,
                       <<"fast_param", "znle_frequency">>,
                       <<"trace_information", "trace_infos">>,
                       <<"columns", <<"time", "p0", "znle_frequency">> \o ColNames>> >>)
              /\ pc' = "prov"
              /\ UNCHANGED << station, interrupt_requested, process, callArgs,
                              loopv, now, elapsed, vnav, rows, plotted,
                              plot_cols, attached, data, held, history, exc >>

\* lines 186-201 (the same loop in megasweep 263-278, sweep_vna_1d 354-369,
\* sweep_vna_2d 465-480)
Provenance ==
    /\ pc = "prov"
    /\ io' = io \o AllProvReads
    /\ metadata' = PutAll(metadata, AllProvEntries)
    /\ pc' = "start"
    /\ UNCHANGED << station, interrupt_requested, process, callArgs, fast_v,
                    loopv, now, elapsed, vnav, rows, plotted, plot_cols,
                    attached, data, held, history, exc >>

\* --------------------------------------------------------- loop entry
\* the for statement of a loop over seq: first iteration or loop exit
TwoD == fn \in {"megasweep", "sweep_vna_2d"}

\* Station.sweep, lines 203-209
StartSweep ==
    /\ pc = "start"
    /\ fn = "sweep"
    /\ metadata' = PutAll(metadata, << <<"setpoints", fast_v>>,
                                       <<"interrupted", FALSE>>,
                                       <<"start_time", now>>,
                                       <<"human_readable start time", now>> >>)
    /\ plot_cols' = Append(plot_cols, metadata["columns"])
    /\ now' = now + 1
    /\ IF fast_v = <<>>
         THEN pc' = "fin" /\ UNCHANGED i
         ELSE pc' = "set" /\ i' = 1
    /\ UNCHANGED << station, interrupt_requested, process, callArgs, fast_v,
                    j, tk, elapsed, vnav, rows, plotted, attached, data, held,
                    io, history, exc >>

\* StartTwoD that enters the loop without p.set_cols
StartTwoD_NoCols ==
    /\ pc = "start"
    /\ TwoD
    /\ metadata' = PutAll(metadata, << <<"slow_setpoints", slow_v>>,
                                       <<"fast_setpoints", fast_v>>,
                                       <<"interrupted", FALSE>>,
                                       <<"start_time", now>>,
                                       <<"human_readable start time", now>> >>)
    /\ now' = now + 1
    /\ IF slow_v = <<>>
         THEN pc' = "fin" /\ UNCHANGED i
         ELSE pc' = "sset" /\ i' = 1
    /\ UNCHANGED << station, interrupt_requested, process, callArgs, fast_v,
                    j, tk, elapsed, vnav, rows, plotted, plot_cols, attached,
                    data, held, io, history, exc >>

\* Station.megasweep, lines 280-287; Station.sweep_vna_2d, lines 482-489
StartTwoD ==
    /\ pc = "start"
    /\ TwoD
    /\ metadata' = PutAll(metadata, << <<"slow_setpoints", slow_v>>,
                                       <<"fast_setpoints", fast_v>>,
                                       <<"interrupted", FALSE>>,
                                       <<"start_time", now>>,
                                       <<"human_readable start time", now>> >>)
    /\ plot_cols' = Append(plot_cols, metadata["columns"])
    /\ now' = now + 1
    /\ IF slow_v = <<>>
         THEN pc' = "fin" /\ UNCHANGED i
         ELSE pc' = "sset" /\ i' = 1
    /\ UNCHANGED << station, interrupt_requested, process, callArgs, fast_v,
                    j, tk, elapsed, vnav, rows, plotted, attached, data, held,
                    io, history, exc >>

\* Station.sweep_vna_1d, lines 371-380 (self._traces is not empty here)
StartSweepVna1d ==
    /\ pc = "start"
    /\ fn = "sweep_vna_1d"
    /\ metadata' = PutAll(metadata, << <<"znle_freq_setpoints", fast_v>>,
                                       <<"interrupted", FALSE>>,
                                       <<"start_time", now>>,
                                       <<"human_readable start time", now>> >>)
    /\ plot_cols' = Append(plot_cols, metadata["columns"])
    /\ now' = now + 1
    /\ traces_data' = <<>>
    /\ tk' = 1
    /\ pc' = "tact"
    /\ UNCHANGED << station, interrupt_requested, process, callArgs, fast_v,
                    i, j, elapsed, traces_points, slow_measurement, rows,
                    plotted, attached, data, held, io, history, exc >>

\* ------------------------------------------------------ setpoint writes
\* Station.sweep, lines 210-211: param(setpoint); time.sleep(delay)
SweepSet ==
    /\ pc = "set"
    /\ io' = Append(io, Ev("write", "p1", fast_v[i]))
    /\ pc' = "meas"
    /\ UNCHANGED << station, interrupt_requested, process, callArgs, fast_v,
                    loopv, now, elapsed, vnav, outputs, data, held, history, exc >>

\* Station.megasweep, lines 288-291: slow_param(ov); time.sleep(slow_delay);
\* then the first fast iteration, or none when fast_v is empty
MegasweepSlowSet ==
    /\ pc = "sset"
    /\ fn = "megasweep"
    /\ io' = Append(io, Ev("write", "p0", slow_v[i]))
    /\ IF fast_v = <<>>
         THEN pc' = "ochk" /\ UNCHANGED j
         ELSE pc' = "fset" /\ j' = 1
    /\ UNCHANGED << station, interrupt_requested, process, callArgs, fast_v,
                    i, tk, now, elapsed, vnav, outputs, data, held, history, exc >>

\* Station.megasweep, lines 292-294: fast_param(iv); time.sleep(fast_delay)
MegasweepFastSet ==
    /\ pc = "fset"
    /\ io' = Append(io, Ev("write", "p1", fast_v[j]))
    /\ pc' = "meas"
    /\ UNCHANGED << station, interrupt_requested, process, callArgs, fast_v,
                    loopv, now, elapsed, vnav, outputs, data, held, history, exc >>

\* Station.sweep_vna_2d, lines 490-492
Vna2dSlowSet ==
    /\ pc = "sset"
    /\ fn = "sweep_vna_2d"
    /\ io' = Append(io, Ev("write", "p0", slow_v[i]))
    /\ pc' = "smeas"
    /\ UNCHANGED << station, interrupt_requested, process, callArgs, fast_v,
                    loopv, now, elapsed, vnav, outputs, data, held, history, exc >>

\* Station.sweep_vna_2d, lines 494-499 (self._traces is not empty here)
Vna2dSlowMeasure ==
    /\ pc = "smeas"
    /\ slow_measurement' = Measure
    /\ io' = io \o MeasureReads
    /\ traces_data' = <<>>
    /\ tk' = 1
    /\ pc' = "tact"
    /\ UNCHANGED << station, interrupt_requested, process, callArgs, fast_v,
                    i, j, now, elapsed, traces_points, outputs, data, held,
                    history, exc >>

\* WatchHead that starts an iteration when the elapsed time equals the bound
WatchHead_Inclusive ==
    /\ pc = "whead"
    /\ IF max_duration = -1 \/ elapsed <= max_duration
         THEN /\ Len(rows) < MaxWatchRows
              /\ pc' = "meas"
         ELSE pc' = "fin"
    /\ UNCHANGED << station, interrupt_requested, process, callArgs, fast_v,
                    loopv, now, elapsed, vnav, outputs, data, held, io,
                    history, exc >>

\* Station.watch, line 140: the loop test, against the monotonic clock
WatchHead ==
    /\ pc = "whead"
    /\ IF max_duration = -1 \/ elapsed < max_duration
         THEN /\ Len(rows) < MaxWatchRows
              /\ pc' = "meas"
         ELSE pc' = "fin"
    /\ UNCHANGED << station, interrupt_requested, process, callArgs, fast_v,
                    loopv, now, elapsed, vnav, outputs, data, held, io,
                    history, exc >>

\* ------------------------------------------------------------- traces
TraceName(k) == traces[k][1][2]

\* lines 384-389: the (i, q) series of one trace and, per point, the tuple
\* (i, q, 10 * log10(i^2 + q^2))
Processed(t, P) ==
    [k \in 1..P |->
        << IVal(t, k), QVal(t, k),
           10 * Log10(IVal(t, k) * IVal(t, k) + QVal(t, k) * QVal(t, k)) >>]

\* lines 383 / 502: trace.set_as_active()
TraceActivate ==
    /\ pc = "tact"
    /\ io' = Append(io, Ev("activate", TraceName(tk), 0))
    /\ pc' = "tread"
    /\ UNCHANGED << station, interrupt_requested, process, callArgs, fast_v,
                    loopv, now, elapsed, vnav, outputs, data, held, history, exc >>

\* lines 384-394 / 503-511: read the trace, process it, keep it; next trace
TraceRead ==
    /\ pc = "tread"
    /\ io' = Append(io, Ev("get", TraceName(tk), 0))
    /\ traces_data' = Append(traces_data, Processed(TraceName(tk), Len(fast_v)))
    /\ IF tk < Len(traces)
         THEN tk' = tk + 1 /\ pc' = "tact"
         ELSE UNCHANGED tk /\ pc' = "zip"
    /\ UNCHANGED << station, interrupt_requested, process, callArgs, fast_v,
                    i, j, now, elapsed, traces_points, slow_measurement,
                    outputs, data, held, history, exc >>

\* lines 396 / 513: [a + b for a, b in zip(*traces_data)].  zip yields one
\* tuple per point, holding one element per trace; 'for a, b in' unpacks it
\* into exactly two.
ZipUnpacks == Len(traces_data[1]) = 0 \/ Len(traces_data) = 2

ZipPoints == [k \in 1..Len(traces_data[1]) |-> traces_data[1][k] \o traces_data[2][k]]

\* lines 396-400 / 513-517
ZipTraces ==
    /\ pc = "zip"
    /\ IF ~ZipUnpacks
         THEN Raise("ValueError")
         ELSE /\ traces_points' = (IF Len(traces_data[1]) = 0 THEN <<>> ELSE ZipPoints)
              /\ IF Len(traces_data[1]) = 0
                   THEN /\ pc' = (IF fn = "sweep_vna_2d" THEN "ochk" ELSE "fin")
                        /\ UNCHANGED j
                   ELSE /\ pc' = "meas"
                        /\ j' = 1
              /\ UNCHANGED << station, interrupt_requested, process, callArgs,
                              fast_v, i, tk, now, elapsed, traces_data,
                              slow_measurement, outputs, data, held, io,
                              history, exc >>

\* ------------------------------------------------------- one row
\* RowData with sweep's row built without its setpoint
RowData_NoSetpoint ==
    CASE fn = "measure"      -> <<metadata["time"]>> \o Measure
      [] fn = "watch"        -> <<now>> \o Measure
      [] fn = "sweep"        -> <<now>> \o Measure
      [] fn = "megasweep"    -> <<now, slow_v[i], fast_v[j]>> \o Measure
      [] fn = "sweep_vna_1d" -> <<now, fast_v[j]>> \o Measure \o traces_points[j]
      [] OTHER               -> <<now, slow_v[i], fast_v[j]>> \o slow_measurement
                                    \o traces_points[j]

\* the row each entry point builds (lines 124, 142, 212, 295, 404-405,
\* 521-522); time.time() is the clock now
RowData ==
    CASE fn = "measure"      -> <<metadata["time"]>> \o Measure
      [] fn = "watch"        -> <<now>> \o Measure
      [] fn = "sweep"        -> <<now, fast_v[i]>> \o Measure
      [] fn = "megasweep"    -> <<now, slow_v[i], fast_v[j]>> \o Measure
      [] fn = "sweep_vna_1d" -> <<now, fast_v[j]>> \o Measure \o traces_points[j]
      [] OTHER               -> <<now, slow_v[i], fast_v[j]>> \o slow_measurement
                                    \o traces_points[j]

\* RowReads with sweep_vna_2d reading the followed parameters for each row
RowReads_PerRow == MeasureReads

\* sweep_vna_2d builds its rows from slow_measurement: no read per row
RowReads == IF fn = "sweep_vna_2d" THEN <<>> ELSE MeasureReads

\* BuildRow with the flag read right after the measurement, before the row
\* is handed to the writer
BuildRow_CheckFirst ==
    /\ pc = "meas"
    /\ now' = now + 1
    /\ IF fn = "watch" /\ max_duration # -1
         THEN elapsed' \in {elapsed, elapsed + 1}
         ELSE UNCHANGED elapsed
    /\ IF interrupt_requested
         THEN /\ io' = (io \o RowReads) \o << Ev("flag", "inner", 1) >>
              /\ metadata' = Put(metadata, "interrupted", TRUE)
              /\ brokeOut' = TRUE
              /\ pc' = (IF TwoD THEN "ochk" ELSE "fin")
              /\ UNCHANGED data
         ELSE /\ io' = io \o RowReads
              /\ data' = RowData
              /\ pc' = "wadd"
              /\ UNCHANGED << metadata, brokeOut >>
    /\ UNCHANGED << station, interrupt_requested, process, callArgs, fast_v,
                    loopv, vnav, rows, plotted, plot_cols, attached, held,
                    signalled, sigAt, sigRows, sigIo, exc >>

\* lines 141-142 / 212 / 295 / 402-405 / 519-522 (watch sleeps first, and
\* the monotonic clock may or may not have advanced by the next loop test)
BuildRow ==
    /\ pc = "meas"
    /\ data' = RowData
    /\ io' = io \o RowReads
    /\ now' = now + 1
    /\ IF fn = "watch" /\ max_duration # -1
         THEN elapsed' \in {elapsed, elapsed + 1}
         ELSE UNCHANGED elapsed
    /\ pc' = "wadd"
    /\ UNCHANGED << station, interrupt_requested, process, callArgs, fast_v,
                    loopv, vnav, outputs, held, history, exc >>

\* WriterAddPoint that does not hand the row to the writer
WriterAddPoint_Lost ==
    /\ pc = "wadd"
    /\ pc' = (IF fn = "measure" THEN "close" ELSE "padd")
    /\ UNCHANGED << station, interrupt_requested, process, callArgs, fast_v,
                    loopv, now, elapsed, vnav, outputs, data, held, io,
                    history, exc >>

\* w.add_point(data): lines 124, 143, 213, 296, 406, 523
WriterAddPoint ==
    /\ pc = "wadd"
    /\ rows' = Append(rows, data)
    /\ io' = Append(io, Ev("row", "w", Len(rows) + 1))
    /\ pc' = (IF fn = "measure" THEN "close" ELSE "padd")
    /\ UNCHANGED << station, interrupt_requested, process, callArgs, fast_v,
                    loopv, now, elapsed, vnav, metadata, plotted, plot_cols,
                    attached, data, held, history, exc >>

\* PlotCall starting a new line at every point of a 2-D run
PlotCall_EveryPoint == IF TwoD THEN "add_point_to_new_line" ELSE "add_point"

\* lines 297-300 / 524-527: a new plotted line at fast index 0 (j = 1 here)
PlotCall == IF TwoD /\ j = 1 THEN "add_point_to_new_line" ELSE "add_point"

\* p.add_point(data) / p.add_point_to_new_line(data): lines 144, 214,
\* 297-300, 407, 524-527
PlotterAddPoint ==
    /\ pc = "padd"
    /\ plotted' = Append(plotted, [call |-> PlotCall, row |-> data])
    /\ io' = Append(io, Ev("plot", "p", Len(plotted) + 1))
    /\ pc' = "chk"
    /\ UNCHANGED << station, interrupt_requested, process, callArgs, fast_v,
                    loopv, now, elapsed, vnav, metadata, rows, plot_cols,
                    attached, data, held, history, exc >>

\* ------------------------------------------------------ the flag checks
\* what a read of self.interrupt_requested sees, as logged in io
FlagSeen == IF interrupt_requested THEN 1 ELSE 0

\* where the loop goes on after a check that saw the flag false
NextIteration ==
    CASE fn = "watch" ->
           /\ pc' = "whead"
           /\ UNCHANGED loopv
      [] fn = "sweep" ->
           IF i < Len(fast_v)
             THEN pc' = "set" /\ i' = i + 1 /\ UNCHANGED << j, tk >>
             ELSE pc' = "fin" /\ UNCHANGED loopv
      [] fn = "megasweep" ->
           IF j < Len(fast_v)
             THEN pc' = "fset" /\ j' = j + 1 /\ UNCHANGED << i, tk >>
             ELSE pc' = "ochk" /\ UNCHANGED loopv
      [] fn = "sweep_vna_1d" ->
           IF j < Len(traces_points)
             THEN pc' = "meas" /\ j' = j + 1 /\ UNCHANGED << i, tk >>
             ELSE pc' = "fin" /\ UNCHANGED loopv
      [] OTHER ->
           IF j < Len(traces_points)
             THEN pc' = "meas" /\ j' = j + 1 /\ UNCHANGED << i, tk >>
             ELSE pc' = "ochk" /\ UNCHANGED loopv

\* CheckInterrupt without its break: the flag is recorded, the loop goes on
CheckInterrupt_NoBreak ==
    /\ pc = "chk"
    /\ io' = Append(io, Ev("flag", "inner", FlagSeen))
    /\ metadata' = (IF interrupt_requested
                      THEN Put(metadata, "interrupted", TRUE) ELSE metadata)
    /\ NextIteration
    /\ UNCHANGED << station, interrupt_requested, process, callArgs, fast_v,
                    now, elapsed, vnav, rows, plotted, plot_cols, attached, data,
                    held, history, exc >>

\* lines 145-147, 215-217, 301-303, 409-411, 529-531:
\*     if self.interrupt_requested:
\*         w.metadata['interrupted'] = True
\*         break
CheckInterrupt ==
    /\ pc = "chk"
    /\ io' = Append(io, Ev("flag", "inner", FlagSeen))
    /\ IF interrupt_requested
         THEN /\ metadata' = Put(metadata, "interrupted", TRUE)
              /\ brokeOut' = TRUE
              /\ pc' = (IF TwoD THEN "ochk" ELSE "fin")
              /\ UNCHANGED loopv
         ELSE /\ NextIteration
              /\ UNCHANGED << metadata, brokeOut >>
    /\ UNCHANGED << station, interrupt_requested, process, callArgs, fast_v,
                    now, elapsed, vnav, rows, plotted, plot_cols, attached, data,
                    held, signalled, sigAt, sigRows, sigIo, exc >>

\* OuterCheck without its break
OuterCheck_NoBreak ==
    /\ pc = "ochk"
    /\ io' = Append(io, Ev("flag", "outer", FlagSeen))
    /\ IF i < Len(slow_v)
         THEN pc' = "sset" /\ i' = i + 1
         ELSE pc' = "fin" /\ UNCHANGED i
    /\ UNCHANGED << station, interrupt_requested, process, callArgs, fast_v,
                    j, tk, now, elapsed, vnav, outputs, data, held,
                    history, exc >>

\* lines 304-305, 532-533, at the end of each slow iteration:
\*     if self.interrupt_requested:
\*         break
OuterCheck ==
    /\ pc = "ochk"
    /\ io' = Append(io, Ev("flag", "outer", FlagSeen))
    /\ IF interrupt_requested
         THEN /\ brokeOut' = TRUE
              /\ pc' = "fin"
              /\ UNCHANGED i
         ELSE /\ UNCHANGED brokeOut
              /\ IF i < Len(slow_v)
                   THEN pc' = "sset" /\ i' = i + 1
                   ELSE pc' = "fin" /\ UNCHANGED i
    /\ UNCHANGED << station, interrupt_requested, process, callArgs, fast_v,
                    j, tk, now, elapsed, vnav, outputs, data, held,
                    signalled, sigAt, sigRows, sigIo, exc >>

\* --------------------------------------------------------- finalization
\* Finalize that reads the flag once more and records it
Finalize_ChecksFlag ==
    /\ pc = "fin"
    /\ metadata' =
         IF fn = "watch"
           THEN PutAll(metadata, << <<"interrupted", interrupt_requested>>,
                                    <<"end_time", now>> >>)
           ELSE PutAll(metadata, << <<"interrupted", interrupt_requested>>,
                                    <<"end_time", now>>,
                                    <<"human_readable end time", now>>,
                                    <<"time taken", now - metadata["start_time"]>> >>)
    /\ now' = now + 1
    /\ pc' = "img"
    /\ UNCHANGED << station, interrupt_requested, process, callArgs, fast_v,
                    loopv, elapsed, vnav, rows, plotted, plot_cols, attached,
                    data, held, io, history, exc >>

\* Finalize that records no end of run
Finalize_NoEndTime ==
    /\ pc = "fin"
    /\ now' = now + 1
    /\ pc' = "img"
    /\ UNCHANGED << station, interrupt_requested, process, callArgs, fast_v,
                    loopv, elapsed, vnav, outputs, data, held, io, history,
                    exc >>

\* Finalize that also rewrites the start stamp
Finalize_Restamps ==
    /\ pc = "fin"
    /\ metadata' = PutAll(metadata, << <<"start_time", now>>,
                                       <<"end_time", now>>,
                                       <<"human_readable end time", now>>,
                                       <<"time taken", 0>> >>)
    /\ now' = now + 1
    /\ pc' = "img"
    /\ UNCHANGED << station, interrupt_requested, process, callArgs, fast_v,
                    loopv, elapsed, vnav, rows, plotted, plot_cols, attached,
                    data, held, io, history, exc >>

\* lines 219-222 (307-310, 413-416, 535-538); watch, line 148, sets
\* end_time alone
Finalize ==
    /\ pc = "fin"
    /\ metadata' =
         IF fn = "watch"
           THEN Put(metadata, "end_time", now)
           ELSE PutAll(metadata, << <<"end_time", now>>,
                                    <<"human_readable end time", now>>,
                                    <<"time taken", now - metadata["start_time"]>> >>)
    /\ now' = now + 1
    /\ pc' = "img"
    /\ UNCHANGED << station, interrupt_requested, process, callArgs, fast_v,
                    loopv, elapsed, vnav, rows, plotted, plot_cols, attached,
                    data, held, io, history, exc >>

\* SendImage that attaches 'plot.png' whatever the plotter answered
SendImage_AlwaysAttaches ==
    /\ pc = "img"
    /\ \E image \in {"None", "png"} :
         /\ snapshots' = Append(snapshots, image)
         /\ blobs' = blobs \cup {"plot.png"}
    /\ pc' = "close"
    /\ UNCHANGED << station, interrupt_requested, process, callArgs, fast_v,
                    loopv, now, elapsed, vnav, metadata, rows, plotted,
                    plot_cols, data, held, io, history, exc >>

\* lines 223-226: image = p.send_image(); the plotter answers an image or
\* None; 'plot.png' is attached when it is not None
SendImage ==
    /\ pc = "img"
    /\ \E image \in {"None", "png"} :
         /\ snapshots' = Append(snapshots, image)
         /\ blobs' = IF image # "None" THEN blobs \cup {"plot.png"} ELSE blobs
    /\ pc' = "close"
    /\ UNCHANGED << station, interrupt_requested, process, callArgs, fast_v,
                    loopv, now, elapsed, vnav, metadata, rows, plotted,
                    plot_cols, data, held, io, history, exc >>

\* Close that leaves the with block without releasing the writer
Close_KeepsWriter ==
    /\ pc = "close"
    /\ plotterHeld' = FALSE
    /\ pc' = (IF fn = "measure" THEN "ret" ELSE "restore")
    /\ UNCHANGED << station, interrupt_requested, process, callArgs, fast_v,
                    loopv, now, elapsed, vnav, outputs, data, writerHeld, io,
                    history, exc >>

\* the end of the with block: __exit__ of the plotter, then of the writer
Close ==
    /\ pc = "close"
    /\ writerHeld' = FALSE
    /\ plotterHeld' = FALSE
    /\ pc' = (IF fn = "measure" THEN "ret" ELSE "restore")
    /\ UNCHANGED << station, interrupt_requested, process, callArgs, fast_v,
                    loopv, now, elapsed, vnav, outputs, data, io, history, exc >>

\* _interruptible.wrapper, line 49: signal.signal(signal.SIGINT, old_handler)
RestoreHandler ==
    /\ pc = "restore"
    /\ handler' = old_handler
    /\ pc' = "ret"
    /\ UNCHANGED << station, interrupt_requested, old_handler, callArgs,
                    fast_v, loopv, now, elapsed, vnav, outputs, data, held,
                    io, history, exc >>

\* return SweepResult(self._basedir, w.id, w.metadata, w.datapath)
Return ==
    /\ pc = "ret"
    /\ pc' = "returned"
    /\ UNCHANGED << station, interrupt_requested, process, callArgs, fast_v,
                    loopv, now, elapsed, vnav, outputs, data, held, io,
                    history, exc >>

\* ------------------------------------------------------- specification
Next ==
    \/ follow_param
    \/ follow_trace
    \/ CallMeasure
    \/ CallWatch
    \/ CallSweep
    \/ CallMegasweep
    \/ CallSweepVna1d
    \/ CallSweepVna2d
    \/ InstallHandler
    \/ Open
    \/ AssembleMeasure
    \/ AssembleWatch
    \/ AssembleSweep
    \/ AssembleMegasweep
    \/ AssembleSweepVna1d
    \/ AssembleSweepVna2d
    \/ Provenance
    \/ StartSweep
    \/ StartTwoD
    \/ StartSweepVna1d
    \/ SweepSet
    \/ MegasweepSlowSet
    \/ MegasweepFastSet
    \/ Vna2dSlowSet
    \/ Vna2dSlowMeasure
    \/ WatchHead
    \/ TraceActivate
    \/ TraceRead
    \/ ZipTraces
    \/ BuildRow
    \/ WriterAddPoint
    \/ PlotterAddPoint
    \/ CheckInterrupt
    \/ OuterCheck
    \/ Finalize
    \/ SendImage
    \/ Close
    \/ RestoreHandler
    \/ Return
    \/ DeviceRaise
    \/ Signal
    \/ Release

Spec == Init /\ [][Next]_vars

\* ------------------------------------- registration, any handle any time
\* follow_param and follow_trace take whatever handle the caller passes,
\* registered before or not; the runs are those of measure.
AllFollowChoices == { <<"p2", 1>>, <<"zm_r", 2>>, <<"sr_x", 3>> }

AllTraceChoices == { TraceOrder[1], TraceOrder[2] }

NextRegistration ==
    \/ FollowParamWith(AllFollowChoices)
    \/ FollowTraceWith(AllTraceChoices)
    \/ CallMeasure
    \/ Open
    \/ AssembleMeasure
    \/ BuildRow
    \/ WriterAddPoint
    \/ Close
    \/ Return
    \/ DeviceRaise
    \/ Signal
    \/ Release

SpecRegistration == Init /\ [][NextRegistration]_vars

\* ------------------------------------------ the storage root of a Station
\* The process before and after it builds its Station: set_basedir calls,
\* changes of the current directory, Station(basedir) and measure runs.
Unbuilt == [arg |-> NoPath, default |-> NoPath, dir |-> NoPath]

Constructed == built # Unbuilt

\* the paths given to set_basedir, to Station(basedir=...), and the
\* directories the process may be in
SetBasedirPaths == {NoPath, "/data", "/lab"}
BasedirArgs == {NoPath, "/data", "/run"}
Cwds == {"/home", "/work"}

InitBasedir ==
    /\ params = <<>>
    /\ traces = <<>>
    /\ trace_cols = <<>>
    /\ interrupt_requested = FALSE
    /\ handler = "default_int_handler"
    /\ old_handler = "default_int_handler"
    /\ BASEDIR = NoPath
    /\ cwd = "/home"
    /\ built = Unbuilt
    /\ basedir = NoPath
    /\ writer_root = NoPath
    /\ AtRest
    /\ NoCall

\* set_basedir, lines 20-22
set_basedir(path) ==
    /\ pc = "idle"
    /\ BASEDIR' = path
    /\ UNCHANGED << params, traces, trace_cols, cwd, basedir, built,
                    writer_root, bench, interrupt_requested, process, pc, callArgs,
                    fast_v, loopv, now, elapsed, vnav, outputs, data, held,
                    io, history, exc >>

\* os.chdir by the surrounding program: what os.getcwd() (line 69) answers
Chdir ==
    /\ pc = "idle"
    /\ cwd' \in Cwds \ {cwd}
    /\ UNCHANGED << params, traces, trace_cols, BASEDIR, basedir, built,
                    writer_root, bench, interrupt_requested, process, pc, callArgs,
                    fast_v, loopv, now, elapsed, vnav, outputs, data, held,
                    io, history, exc >>

\* Station.__init__, lines 61-75
Construct(arg) ==
    /\ pc = "idle"
    /\ ~Constructed
    /\ basedir' = RootFor(arg, BASEDIR, cwd)
    /\ built' = [arg |-> arg, default |-> BASEDIR, dir |-> cwd]
    /\ params' = <<>>
    /\ traces' = <<>>
    /\ trace_cols' = <<>>
    /\ UNCHANGED << BASEDIR, cwd, writer_root, bench, interrupt_requested,
                    process,
                    pc, callArgs, fast_v, loopv, now, elapsed, vnav, outputs,
                    data, held, io, history, exc >>

\* a call of measure on the Station that was built
MeasureBuilt == Constructed /\ CallMeasure

NextBasedir ==
    \/ \E path \in SetBasedirPaths : set_basedir(path)
    \/ Chdir
    \/ \E arg \in BasedirArgs : Construct(arg)
    \/ MeasureBuilt
    \/ Open
    \/ AssembleMeasure
    \/ BuildRow
    \/ WriterAddPoint
    \/ Close
    \/ Return
    \/ Release

SpecBasedir == InitBasedir /\ [][NextBasedir]_vars

\* ------------------------------------------------ durations as text
\* the largest number of seconds rendered
MaxSeconds == 7325

\* f'{h}h {m}m {s}s'
Rendering(h, m, s) ==
    ((((ToString(h) \o "h ") \o ToString(m)) \o "m ") \o ToString(s)) \o "s"

\* sec_to_str with the minutes not reduced modulo 60
sec_to_str_NoWrap(d) == Rendering(d \div 3600, d \div 60, d % 60)

\* _sec_to_str, lines 24-26, for an integer d >= 0: int() of the true
\* quotient is the integer quotient
sec_to_str(d) == Rendering(d \div 3600, (d \div 60) % 60, d % 60)

InitDuration ==
    /\ Fresh
    /\ InstrAtRest
    /\ duration \in 0..MaxSeconds
    /\ time_taken = ""

\* a caller renders the duration (lines 154, 164, 222, 228, ...)
RenderDuration ==
    /\ pc = "idle"
    /\ time_taken = ""
    /\ time_taken' = sec_to_str(duration)
    /\ UNCHANGED << duration, drivers, params, traces, trace_cols, config,
                    writer_root, interrupt_requested, process, pc, callArgs,
                    fast_v, loopv, now, elapsed, vnav, outputs, data, held,
                    io, history, exc >>

NextDuration == RenderDuration

SpecDuration == InitDuration /\ [][NextDuration]_vars

\* ------------------------------------------------ the instrument drivers
\* what a call on a driver leaves alone
offBench == << params, traces, trace_cols, config, writer_root,
               interrupt_requested, process, pc, callArgs, fast_v, loopv, now,
               elapsed, vnav, outputs, data, held, io, history, exc >>

\* ZNLEParams._set_state_parser / _get_state_parser
ZNLE_set_state_parser(state) == IF state THEN "1" ELSE "0"

ZNLE_get_state_parser(state) == IF state = "0" THEN TRUE ELSE FALSE

\* ZM2376._set_state_parser / _get_state_parser; '"0" in str(state)' on
\* the answers "0" and "1" of the instrument
ZM2376_set_state_parser(state) == IF state THEN "1" ELSE "0"

ZM2376_get_state_parser(state) == IF state \in {"0"} THEN FALSE ELSE TRUE

\* ZNLE14.params.aver_state(b): the set parser's text goes to the register
SetAverState(b) ==
    /\ pc = "idle"
    /\ instr' = [instr EXCEPT !.znle_aver = ZNLE_set_state_parser(b)]
    /\ sent' = [sent EXCEPT !.znle = [done |-> TRUE, val |-> b]]
    /\ got' = [got EXCEPT !.znle = NoState]
    /\ UNCHANGED << setpoints, printed, offBench >>

\* ZNLE14.params.aver_state(): the get parser reads the register's text
GetAverState ==
    /\ pc = "idle"
    /\ got' = [got EXCEPT !.znle =
                  [done |-> TRUE, val |-> ZNLE_get_state_parser(instr.znle_aver)]]
    /\ UNCHANGED << instr, sent, setpoints, printed, offBench >>

\* ZM2376.dc_bias_state(b)
SetDcBiasState(b) ==
    /\ pc = "idle"
    /\ instr' = [instr EXCEPT !.zm_bias = ZM2376_set_state_parser(b)]
    /\ sent' = [sent EXCEPT !.zm = [done |-> TRUE, val |-> b]]
    /\ got' = [got EXCEPT !.zm = NoState]
    /\ UNCHANGED << setpoints, printed, offBench >>

\* ZM2376.dc_bias_state()
GetDcBiasState ==
    /\ pc = "idle"
    /\ got' = [got EXCEPT !.zm =
                  [done |-> TRUE, val |-> ZM2376_get_state_parser(instr.zm_bias)]]
    /\ UNCHANGED << instr, sent, setpoints, printed, offBench >>

\* ZNLEParams._sweep_types: the keys
SweepTypes == {"LIN", "LOG", "CW"}

\* the sweep types a caller may try, the frequencies (powers of ten, in
\* Hz) and the numbers of points given to the analyzer
TypesTried == SweepTypes \cup {"SEGM"}
StartFreqs == {1000, 10000}
StopFreqs == {100000, 1000000}
MaxSweepPoints == 3

\* sweep_type(t): _sweep_type_parser raises AttributeError for a type
\* that is no key of _sweep_types, and nothing is sent
SetSweepType(t) ==
    /\ pc = "idle"
    /\ IF t \in SweepTypes
         THEN /\ instr' = [instr EXCEPT !.swe_type = t]
              /\ setpoints' = NoSetpoints
         ELSE UNCHANGED << instr, setpoints >>
    /\ UNCHANGED << sent, got, printed, offBench >>

\* freq_start(f), freq_stop(f), sweep_points(n)
SetFreqStart(f) ==
    /\ pc = "idle"
    /\ instr' = [instr EXCEPT !.freq_start = f]
    /\ setpoints' = NoSetpoints
    /\ UNCHANGED << sent, got, printed, offBench >>

SetFreqStop(f) ==
    /\ pc = "idle"
    /\ instr' = [instr EXCEPT !.freq_stop = f]
    /\ setpoints' = NoSetpoints
    /\ UNCHANGED << sent, got, printed, offBench >>

SetSweepPoints(n) ==
    /\ pc = "idle"
    /\ instr' = [instr EXCEPT !.sweep_points = n]
    /\ setpoints' = NoSetpoints
    /\ UNCHANGED << sent, got, printed, offBench >>

\* np.linspace(a, b, n) for n >= 2, in exact arithmetic: the k-th value is
\* num / den on the scale given ("lin": the value; "log": its log10)
Linspace(scale, a, b, n) ==
    [k \in 1..n |-> [scale |-> scale,
                     num |-> a * (n - 1) + (k - 1) * (b - a),
                     den |-> n - 1]]

\* ZNLEParams.get_freq_setpoints, lines 486-496: with a sweep type that is
\* neither 'lin' nor 'log' the name setpoints is unbound at line 496
get_freq_setpoints ==
    CASE instr.swe_type = "LIN" ->
           [raised |-> "none",
            val |-> Linspace("lin", instr.freq_start, instr.freq_stop,
                             instr.sweep_points)]
      [] instr.swe_type = "LOG" ->
           [raised |-> "none",
            val |-> Linspace("log", Log10(instr.freq_start),
                             Log10(instr.freq_stop), instr.sweep_points)]
      [] OTHER ->
           [raised |-> "UnboundLocalError", val |-> <<>>]

GetFreqSetpoints ==
    /\ pc = "idle"
    /\ setpoints' = get_freq_setpoints
    /\ UNCHANGED << instr, sent, got, printed, offBench >>

NextDrivers ==
    \/ \E b \in BOOLEAN : SetAverState(b)
    \/ GetAverState
    \/ \E b \in BOOLEAN : SetDcBiasState(b)
    \/ GetDcBiasState
    \/ \E t \in TypesTried : SetSweepType(t)
    \/ \E f \in StartFreqs : SetFreqStart(f)
    \/ \E f \in StopFreqs : SetFreqStop(f)
    \/ \E n \in 2..MaxSweepPoints : SetSweepPoints(n)
    \/ GetFreqSetpoints

SpecDrivers == Init /\ [][NextDrivers]_vars

\* ------------------------- sweep and megasweep over two instruments
\* The followed parameters belong to an impedance analyzer and to a lock-in
\* (both carry .instrument); the runs are those of sweep and megasweep.
SweepFollowChoices == { <<"zm_r", 2>>, <<"sr_x", 2>> }

NextSweeps ==
    \/ FollowParamWith(SweepFollowChoices)
    \/ CallSweep
    \/ CallMegasweep
    \/ InstallHandler
    \/ Open
    \/ AssembleSweep
    \/ AssembleMegasweep
    \/ Provenance
    \/ StartSweep
    \/ StartTwoD
    \/ SweepSet
    \/ MegasweepSlowSet
    \/ MegasweepFastSet
    \/ BuildRow
    \/ WriterAddPoint
    \/ PlotterAddPoint
    \/ CheckInterrupt
    \/ OuterCheck
    \/ Finalize
    \/ SendImage
    \/ Close
    \/ RestoreHandler
    \/ Return
    \/ DeviceRaise
    \/ Signal
    \/ Release

SpecSweeps == Init /\ [][NextSweeps]_vars

\* ----------------------------- termination of sweep, megasweep, watch
\* One iteration of watch takes time: the monotonic clock has advanced by
\* (at least) one unit when the loop test of line 140 is evaluated again.
BuildRowTicking ==
    /\ BuildRow
    /\ (fn = "watch" /\ max_duration # -1) => elapsed' = elapsed + 1

\* the steps of a call of watch, sweep or megasweep, every device call and
\* every sleep returning
StepLive ==
    \/ InstallHandler
    \/ Open
    \/ AssembleWatch
    \/ AssembleSweep
    \/ AssembleMegasweep
    \/ Provenance
    \/ StartSweep
    \/ StartTwoD
    \/ SweepSet
    \/ MegasweepSlowSet
    \/ MegasweepFastSet
    \/ WatchHead
    \/ BuildRowTicking
    \/ WriterAddPoint
    \/ PlotterAddPoint
    \/ CheckInterrupt
    \/ OuterCheck
    \/ Finalize
    \/ SendImage
    \/ Close
    \/ RestoreHandler
    \/ Return

NextLive ==
    \/ follow_param
    \/ CallWatch
    \/ CallSweep
    \/ CallMegasweep
    \/ StepLive
    \/ Signal
    \/ Release

\* A call that can take a step takes one: the interpreter runs the single
\* thread of the call; SIGINT and the caller's next call are under no
\* obligation.
SpecLive == Init /\ [][NextLive]_vars /\ WF_vars(StepLive)

\* =====================================================================
\* Properties
\* =====================================================================
Interruptible == fn \in {"watch", "sweep", "megasweep", "sweep_vna_1d", "sweep_vna_2d"}

\* the run has left its loop and recorded its end (pc past line 219)
Finalized == pc \in {"img", "close", "restore", "ret", "returned"}

HasKey(k) == k \in DOMAIN metadata

\* column c of the rows, in row order
Column(c) == [r \in 1..Len(rows) |-> rows[r][c]]

IsPrefix(a, b) == Len(a) <= Len(b) /\ \A k \in 1..Len(a) : a[k] = b[k]

\* the values written to parameter who, in order of writing
RECURSIVE WrittenFrom(_, _)
WrittenFrom(who, k) ==
    IF k > Len(io) THEN <<>>
    ELSE IF io[k].op = "write" /\ io[k].who = who
           THEN <<io[k].val>> \o WrittenFrom(who, k + 1)
           ELSE WrittenFrom(who, k + 1)

Written(who) == WrittenFrom(who, 1)

\* device writes (setpoint writes, trace activations) issued after the
\* first SIGINT of the call was delivered
WritesAfterSignal ==
    Cardinality({ k \in (sigIo + 1)..Len(io) : io[k].op \in {"write", "activate"} })

NewLines == Cardinality({ k \in 1..Len(plotted) : plotted[k].call = "add_point_to_new_line" })

\* ---- C1 -------------------------------------------------------------
\* C1 as claimed: a sweep over M setpoints in which SIGINT first arrives
\* while the writer holds k rows (1 <= k < M) returns with interrupted =
\* true, end_time set, and exactly the first k rows.
C1_Original ==
    (pc = "returned" /\ fn = "sweep" /\ signalled
       /\ 1 <= sigRows /\ sigRows < Len(fast_v))
    => /\ metadata["interrupted"] = TRUE
       /\ HasKey("end_time")
       /\ Len(rows) = sigRows
       /\ IsPrefix(Column(2), fast_v)

\* C1 as amended: under the same condition the run returns with
\* interrupted = true and end_time set, and the writer holds the first k
\* rows in setpoint order when SIGINT arrived before the flag check that
\* follows row k, and the first k + 1 rows when it arrived after that check
\* (the setpoint k + 1 is then written, measured and persisted before the
\* flag is read again).
C1_InterruptedRows ==
    (pc = "returned" /\ fn = "sweep" /\ signalled
       /\ 1 <= sigRows /\ sigRows < Len(fast_v))
    => /\ metadata["interrupted"] = TRUE
       /\ HasKey("end_time")
       /\ Len(rows) = (IF sigAt \in {"padd", "chk"} THEN sigRows ELSE sigRows + 1)
       /\ IsPrefix(Column(2), fast_v)

C1_Witness ==
    /\ pc = "returned" /\ fn = "sweep" /\ signalled
    /\ sigRows = 1 /\ Len(fast_v) = 2 /\ sigAt = "set"
    /\ Len(rows) = 2 /\ metadata["interrupted"] = TRUE

\* ---- C2 -------------------------------------------------------------
\* C2: whenever a loop was left because the flag was seen true, the
\* finalized run has interrupted = true; a 2-D run finalized with
\* interrupted = false holds a row for every (slow, fast) pair.
C2_InterruptedRecorded ==
    (Finalized /\ Interruptible)
    => /\ brokeOut => metadata["interrupted"] = TRUE
       /\ (TwoD /\ metadata["interrupted"] = FALSE)
            => Len(rows) = Len(slow_v) * Len(fast_v)

\* ---- C3 -------------------------------------------------------------
\* C3: after every exit of an interruptible entry point (return,
\* interruption, error) the SIGINT handler is the one installed before the
\* first call.
C3_HandlerRestored ==
    pc \in {"idle", "returned", "raised"} => handler = "default_int_handler"

C5_Original ==
    (pc = "returned" /\ fn = "megasweep" /\ ~signalled)
    => /\ Len(rows) = Len(slow_v) * Len(fast_v)
       /\ NewLines = Len(slow_v)

\* C5 as amended: such a run writes S * F rows; the plotter receives S
\* add_point_to_new_line calls when F >= 1, one for fast index 0 of each
\* slow setpoint, and none when F = 0.
C5_MegasweepRows ==
    (pc = "returned" /\ fn = "megasweep" /\ ~signalled)
    => /\ Len(rows) = Len(slow_v) * Len(fast_v)
       /\ Len(plotted) = Len(rows)
       /\ NewLines = (IF fast_v = <<>> THEN 0 ELSE Len(slow_v))
       /\ \A k \in 1..Len(plotted) :
            (plotted[k].call = "add_point_to_new_line")
              <=> ((k - 1) % Len(fast_v) = 0)

C5_Witness ==
    /\ pc = "returned" /\ fn = "megasweep" /\ signalled = FALSE
    /\ Len(slow_v) = 2 /\ Len(fast_v) = 2 /\ Len(rows) = 4 /\ NewLines = 2

\* ---- C6 -------------------------------------------------------------
\* C6: every row handed to the writer is as long as metadata['columns'].
C6_RowMatchesSchema ==
    \A r \in 1..Len(rows) : Len(rows[r]) = Len(metadata["columns"])

\* ---- C7 -------------------------------------------------------------
\* C7: a returned measure has the schema ['time'] + parameter names
\* (length 1 + N) and exactly one row: the time stamp followed by one read
\* of each followed parameter, in registration order.
C7_MeasureSchemaAndRow ==
    (pc = "returned" /\ fn = "measure")
    => /\ Len(metadata["columns"]) = 1 + Len(params)
       /\ metadata["columns"] = <<"time">> \o ParamNames
       /\ Len(rows) = 1
       /\ rows[1] = <<metadata["time"]>> \o Measure
       /\ [k \in 1..Len(params) |-> io[k]] = MeasureReads
       /\ Cardinality({ k \in 1..Len(io) : io[k].op = "read" }) = Len(params)

\* ---- C8 -------------------------------------------------------------
\* C8: in every state the rows the plotter has received are a prefix of the
\* rows the writer has received, at most one shorter, both in acquisition
\* order (strictly increasing time stamps).
C8_PlotterFollowsWriter ==
    /\ Len(plotted) <= Len(rows)
    /\ Len(rows) <= Len(plotted) + 1
    /\ \A k \in 1..Len(plotted) : plotted[k].row = rows[k]
    /\ \A k \in 1..(Len(rows) - 1) : rows[k][1] < rows[k + 1][1]

C8_Witness ==
    /\ Interruptible /\ pc = "padd"
    /\ Len(rows) = 2 /\ Len(plotted) = 1

\* ---- C9 -------------------------------------------------------------
\* C9 as claimed: in an interruptible entry point at most one device write
\* is issued after SIGINT has arrived.
C9_Original ==
    (Interruptible /\ signalled) => WritesAfterSignal <= 1

\* C9 as amended: after SIGINT has arrived, watch issues no device write and
\* sweep at most one setpoint write; megasweep at most two (one slow
\* setpoint write and one fast setpoint write); sweep_vna_1d at most one
\* activation per followed trace; sweep_vna_2d at most one slow setpoint
\* write and one activation per followed trace.
C9_WritesAfterSignal ==
    (Interruptible /\ signalled)
    => WritesAfterSignal <=
         (CASE fn = "watch"        -> 0
            [] fn = "sweep"        -> 1
            [] fn = "megasweep"    -> 2
            [] fn = "sweep_vna_1d" -> Len(traces)
            [] OTHER               -> 1 + Len(traces))

C9_Witness ==
    /\ pc = "returned" /\ fn = "megasweep" /\ signalled
    /\ WritesAfterSignal = 2 /\ metadata["interrupted"] = TRUE

\* ---- C10 ------------------------------------------------------------
\* C10: in watch, sweep and megasweep the flag is read once per
\* row-producing iteration, right after the row was handed to the writer
\* and then to the plotter, and whatever the run does next to the swept
\* parameter comes after that read; so when a loop is left on the flag,
\* every setpoint written to the swept (fast) parameter has its row.
C10_CheckAfterRow ==
    fn \in {"watch", "sweep", "megasweep"}
    => /\ \A k \in 1..Len(io) :
            /\ (io[k].op = "flag" /\ io[k].who = "inner")
                 => (k > 2 /\ io[k - 1].op = "plot" /\ io[k - 2].op = "row")
            /\ (io[k].op = "plot" /\ k < Len(io))
                 => (io[k + 1].op = "flag" /\ io[k + 1].who = "inner")
            /\ (io[k].op = "write" /\ io[k].who = "p1"
                  /\ \E m \in 1..(k - 1) : io[m].op = "write" /\ io[m].who = "p1")
                 => io[k - 1].op \in {"flag", "write"}
       /\ brokeOut => (fn # "watch" => Written("p1") = Column(IF fn = "sweep" THEN 2 ELSE 3))

C10_Witness ==
    /\ fn = "megasweep" /\ brokeOut /\ pc = "returned"
    /\ Len(rows) = 3 /\ Len(Written("p1")) = 3

\* ---- C11 ------------------------------------------------------------
\* the end-of-run keys every interruptible entry point but watch writes
EndKeys == {"end_time", "human_readable end time", "time taken"}

\* C11: in watch, sweep, megasweep, sweep_vna_1d and sweep_vna_2d, on the
\* normal and on the interrupted exit path, the end-of-run metadata is
\* written while the writer and the plotter are still held, both are
\* released after that, and the SweepResult is returned only afterwards:
\* no call is past its with block, or returned, while either is held or
\* before end_time is set.
C11_ReleaseBeforeReturn ==
    Interruptible
    => /\ pc \in {"img", "close"}
            => (writerHeld /\ plotterHeld /\ HasKey("end_time")
                  /\ (fn # "watch" => EndKeys \subseteq DOMAIN metadata))
       /\ pc \in {"restore", "ret", "returned"}
            => (~writerHeld /\ ~plotterHeld /\ HasKey("end_time")
                  /\ (fn # "watch" => EndKeys \subseteq DOMAIN metadata))
       /\ (writerHeld \/ plotterHeld) => pc \notin {"restore", "ret", "returned"}

C11_Witness ==
    /\ pc = "returned" /\ fn = "megasweep" /\ brokeOut
    /\ metadata["interrupted"] = TRUE /\ HasKey("time taken")
    /\ ~writerHeld /\ ~plotterHeld

\* ---- C12 ------------------------------------------------------------
\* a parameter read or a setpoint write of sweep / megasweep has raised
LoopFailure == fn \in {"sweep", "megasweep"} /\ exc = "DeviceError"

\* C12: when a followed parameter read or a setpoint write raises in
\* sweep or megasweep, the call ends by that exception (nothing is
\* returned), end_time and 'time taken' are never set, no 'plot.png' is
\* attached, and both scopes are released; the step that raises writes no
\* setpoint and no row and leaves the rows written so far in the writer,
\* and nothing but the caller's handling of the exception follows.
C12_ErrorPropagates ==
    /\ [](LoopFailure
            => /\ pc = "raised"
               /\ ~HasKey("end_time")
               /\ ~HasKey("time taken")
               /\ "plot.png" \notin blobs
               /\ ~writerHeld /\ ~plotterHeld)
    /\ [][ /\ (~LoopFailure /\ LoopFailure')
               => (rows' = rows /\ io' = io /\ metadata' = metadata
                     /\ plotted' = plotted)
           /\ LoopFailure => (pc' = "idle" /\ rows' = <<>>) ]_vars

C12_Witness ==
    /\ LoopFailure /\ pc = "raised" /\ fn = "megasweep"
    /\ Len(rows) = 1 /\ Len(Written("p1")) = 2

\* ---- C13 ------------------------------------------------------------
\* the keys holding the setpoint lists of the running entry point
SetpointKeys ==
    CASE fn = "sweep"        -> {"setpoints"}
      [] fn = "sweep_vna_1d" -> {"znle_freq_setpoints"}
      [] OTHER               -> {"slow_setpoints", "fast_setpoints"}

ProvenanceKeys == { AllProvEntries[k][1] : k \in 1..Len(AllProvEntries) }

\* C13: in sweep, megasweep, sweep_vna_1d and sweep_vna_2d, when the first
\* row is written 'columns', the setpoint lists and the provenance entries
\* are in the metadata and the plotter's columns have been set once, to
\* metadata['columns']; from then on, while the call lasts, no step removes
\* a key, creates or changes a key other than 'interrupted' and the
\* end-of-run keys, or sets the plotter's columns again.
C13_MetadataFrozen ==
    /\ []((fn \in {"sweep", "megasweep", "sweep_vna_1d", "sweep_vna_2d"}
             /\ rows # <<>>)
            => /\ ({"columns"} \cup SetpointKeys \cup ProvenanceKeys)
                     \subseteq DOMAIN metadata
               /\ plot_cols = << metadata["columns"] >>)
    /\ [][ (fn \in {"sweep", "megasweep", "sweep_vna_1d", "sweep_vna_2d"}
              /\ rows # <<>> /\ pc' # "idle")
           => /\ DOMAIN metadata \subseteq DOMAIN metadata'
              /\ \A k \in DOMAIN metadata' :
                   k \notin (EndKeys \cup {"interrupted"})
                     => (k \in DOMAIN metadata /\ metadata'[k] = metadata[k])
              /\ plot_cols' = plot_cols ]_vars

C13_Witness ==
    /\ pc = "returned" /\ fn = "sweep_vna_2d" /\ Len(rows) = 2
    /\ metadata["interrupted"] = TRUE /\ HasKey("time taken")
    /\ HasKey("variables (ZM2376_1)")

\* ---- C14 ------------------------------------------------------------
\* the flag was read as true by the check of the fast loop, at io[k]
SeenInFastLoop(k) == io[k] = Ev("flag", "inner", 1)

\* C14: in megasweep and sweep_vna_2d, once the check of the fast loop has
\* seen the flag true, the only thing the loops still do is the check of
\* the slow loop, which sees it true as well: no setpoint write, parameter
\* read, trace access or row follows, and the run is at that outer check,
\* at its finalization, or past it with end_time set.
C14_BothLoopsLeft ==
    TwoD
    => \A k \in 1..Len(io) :
         SeenInFastLoop(k)
           => /\ Len(io) <= k + 1
              /\ Len(io) = k + 1 => io[k + 1] = Ev("flag", "outer", 1)
              /\ pc \in {"ochk", "fin", "img", "close", "restore", "ret",
                          "returned", "raised"}
              /\ pc = "ochk" <=> Len(io) = k
              /\ pc \notin {"ochk", "fin"} => HasKey("end_time")

C14_Witness ==
    /\ pc = "returned" /\ fn = "sweep_vna_2d"
    /\ Len(slow_v) = 2 /\ i = 1 /\ Len(rows) = 1
    /\ \E k \in 1..Len(io) : SeenInFastLoop(k)

\* ---- C15 ------------------------------------------------------------
\* the "activate" and "get" events of the log, in order
RECURSIVE TraceEvents(_)
TraceEvents(k) ==
    IF k > Len(io) THEN <<>>
    ELSE IF io[k].op \in {"activate", "get"}
           THEN << <<io[k].op, io[k].who>> >> \o TraceEvents(k + 1)
           ELSE TraceEvents(k + 1)

\* one pass over the followed traces: activate, then read, each in turn
TracePass ==
    Flatten([t \in 1..Len(traces) |->
                << <<"activate", TraceName(t)>>, <<"get", TraceName(t)>> >>])

\* the 3T trace values of frequency point r, traces in registration order
TraceValues(r) ==
    Flatten([t \in 1..Len(traces) |-> Processed(TraceName(t), Len(fast_v))[r]])

\* C15: with T >= 1 followed traces and a grid of P points, a call of
\* sweep_vna_1d in which no signal arrives (and no device command fails)
\* returns, having activated and read every trace once in registration
\* order and written P rows, row j being [time, frequency_j] + parameter
\* reads + (i_j, q_j, derived_j) per trace, of length 2 + N + 3T.
C15_TraceRows ==
    (fn = "sweep_vna_1d" /\ pc \in {"returned", "raised"} /\ ~signalled
       /\ Len(traces) >= 1 /\ exc \notin {"DeviceError", "AttributeError"})
    => /\ pc = "returned"
       /\ TraceEvents(1) = TracePass
       /\ Len(rows) = Len(fast_v)
       /\ \A r \in 1..Len(rows) :
            /\ Len(rows[r]) = 2 + Len(params) + 3 * Len(traces)
            /\ rows[r] = (<<rows[r][1], fast_v[r]>> \o Measure) \o TraceValues(r)

\* ---- C16 ------------------------------------------------------------
\* the slow setpoint writes and the trace accesses of the log, in order
RECURSIVE SlowAndTraceEvents(_)
SlowAndTraceEvents(k) ==
    IF k > Len(io) THEN <<>>
    ELSE IF io[k].op \in {"activate", "get"}
              \/ (io[k].op = "write" /\ io[k].who = "p0")
           THEN << <<io[k].op, io[k].who>> >> \o SlowAndTraceEvents(k + 1)
           ELSE SlowAndTraceEvents(k + 1)

\* C16: a call of sweep_vna_2d over S slow setpoints, with T >= 1 followed
\* traces and a grid of P >= 1 points, in which no signal arrives (and no
\* device command fails) returns, having run one trace pass after each
\* slow setpoint write and no other, written S * P rows, and started S new
\* lines on the plotter.
C16_PassPerSlowSetpoint ==
    (fn = "sweep_vna_2d" /\ pc \in {"returned", "raised"} /\ ~signalled
       /\ Len(traces) >= 1 /\ fast_v # <<>>
       /\ exc \notin {"DeviceError", "AttributeError"})
    => /\ pc = "returned"
       /\ SlowAndTraceEvents(1)
            = Flatten([s \in 1..Len(slow_v) |-> << <<"write", "p0">> >> \o TracePass])
       /\ Written("p0") = slow_v
       /\ Len(rows) = Len(slow_v) * Len(fast_v)
       /\ NewLines = Len(slow_v)

\* ---- C17 ------------------------------------------------------------
\* C17: in watch with max_duration = D, an iteration (sleep, read, row) is
\* under way only if the monotonic time elapsed since the one start stamp
\* was below D at the loop test; the loop test is reached at loop entry
\* and otherwise right after a flag check that saw the flag false; a run
\* that left the loop by the loop test has elapsed >= D, writes no further
\* row and finalizes with interrupted = false; with D = 0 there is no row.
C17_DurationBound ==
    (fn = "watch" /\ max_duration # -1)
    => /\ pc = "meas" => elapsed < max_duration
       /\ pc = "whead"
            => (io = <<>> \/ io[Len(io)] = Ev("flag", "inner", 0))
       /\ (pc \in {"fin", "img", "close", "restore", "ret", "returned"}
              /\ ~brokeOut)
            => /\ elapsed >= max_duration
               /\ metadata["interrupted"] = FALSE
               /\ (rows # <<>> => io[Len(io)] = Ev("flag", "inner", 0))
       /\ max_duration = 0 => rows = <<>>

C17_Witness ==
    /\ fn = "watch" /\ max_duration = 1 /\ pc = "returned"
    /\ Len(rows) = 2 /\ ~brokeOut /\ elapsed = 1
    /\ metadata["interrupted"] = FALSE

\* ---- C18 ------------------------------------------------------------
NoRepeat(seq) == \A a, b \in 1..Len(seq) : a # b => seq[a] # seq[b]

\* C18: no parameter and no trace is registered twice (a second
\* registration of the same handle is rejected and leaves the lists as
\* they were), so no run's column schema holds the same name twice.
C18_NoDuplicateHandles ==
    /\ NoRepeat(ParamNames)
    /\ NoRepeat([k \in 1..Len(traces) |-> traces[k][1]])
    /\ NoRepeat(trace_cols)
    /\ HasKey("columns") => NoRepeat(metadata["columns"])

\* ---- C19 ------------------------------------------------------------
\* the call is inside its with block
InWithBlock ==
    pc \in {"assemble", "prov", "start", "set", "sset", "fset", "smeas",
            "whead", "tact", "tread", "zip", "meas", "wadd", "padd", "chk",
            "ochk", "fin", "img", "close"}

\* C19 as claimed: every entry point, measure included, holds a writer and
\* the plotter and has the cooperative handler installed all through its
\* body, so that a signal arriving there sets the flag and does not end
\* the call.
C19_Original ==
    InWithBlock
    => /\ writerHeld /\ plotterHeld
       /\ handler = "handler"
       /\ signalled => (interrupt_requested /\ exc = "none")

\* C19 as amended: watch, sweep, megasweep, sweep_vna_1d and sweep_vna_2d
\* hold a writer and the plotter and have the cooperative handler
\* installed all through their with block, and a signal arriving there
\* sets the flag without ending the call; measure holds a writer only and
\* installs no handler: it runs under whatever handler the process has,
\* and under the default one a signal ends it with KeyboardInterrupt.
C19_HandlerWhileHeld ==
    /\ []((Interruptible /\ InWithBlock)
            => /\ writerHeld /\ plotterHeld
               /\ handler = "handler"
               /\ signalled => (interrupt_requested /\ exc = "none"))
    /\ []((fn = "measure" /\ InWithBlock) => (writerHeld /\ ~plotterHeld))
    /\ []((fn = "measure" /\ signalled /\ handler # "handler")
            => (pc = "raised" /\ exc = "KeyboardInterrupt"))
    /\ [][fn' = "measure" => handler' = handler]_vars

C19_Witness ==
    /\ fn = "measure" /\ pc = "raised" /\ exc = "KeyboardInterrupt"
    /\ signalled /\ sigAt = "wadd" /\ Len(rows) = 0
    /\ handler = "default_int_handler"

\* ---- C20 ------------------------------------------------------------
\* C20: a call of sweep on p1, with any followed parameters (those of
\* sweep_test.py included, which have a full name and a call and nothing
\* else) and no followed trace, in which no signal arrives (and no device
\* command fails), returns with type = '1D', param = 'p1', columns =
\* ['time', 'p1'] + the followed names in registration order, and one row
\* per setpoint.
C20_SweepOfDummyParams ==
    (fn = "sweep" /\ pc \in {"returned", "raised"} /\ ~signalled
       /\ traces = <<>> /\ exc # "DeviceError")
    => /\ pc = "returned"
       /\ metadata["type"] = "1D"
       /\ metadata["param"] = "p1"
       /\ metadata["columns"] = <<"time", "p1">> \o ParamNames
       /\ Len(rows) = Len(fast_v)

Axes == IF fn = "sweep" THEN 1 ELSE 2

\* reads of followed parameters in the log
ParamReads ==
    Cardinality({ k \in 1..Len(io) :
                    io[k].op = "read"
                      /\ \E n \in 1..Len(params) : io[k].who = params[n][1] })

\* C21: in sweep and megasweep every row handed to the writer comes right
\* after one read of each followed parameter in registration order, which
\* comes right after the write of the swept (fast) setpoint; the row is
\* [time, setpoint(s)] followed, at position axes + 1 + n, by the value of
\* the n-th followed parameter divided by its gain; the setpoints in the
\* row are the ones last written; there is no other parameter read.
C21_RowConstruction ==
    fn \in {"sweep", "megasweep"}
    => /\ \A k \in 1..Len(io) :
            io[k].op = "row"
              => LET r == io[k].val
                     N == Len(params)
                 IN  /\ k > N + 1
                     /\ \A n \in 1..N :
                          io[k - N - 1 + n] = Ev("read", params[n][1], 0)
                     /\ io[k - N - 1] = Ev("write", "p1", rows[r][Axes + 1])
                     /\ fn = "megasweep"
                          => \E m \in 1..(k - 1) :
                               /\ io[m] = Ev("write", "p0", rows[r][2])
                               /\ \A x \in (m + 1)..(k - 1) :
                                    ~(io[x].op = "write" /\ io[x].who = "p0")
                     /\ Len(rows[r]) = Axes + 1 + N
                     /\ \A n \in 1..N :
                          rows[r][Axes + 1 + n]
                            = ParamValue(params[n][1]) \div params[n][2]
       /\ \A r \in 1..(Len(rows) - 1) : rows[r][1] < rows[r + 1][1]
       /\ ParamReads
            = Len(params) * (Len(rows) + (IF pc = "wadd" THEN 1 ELSE 0))

C21_Witness ==
    /\ fn = "megasweep" /\ pc = "returned"
    /\ params = << <<"zm_r", 2>>, <<"sr_x", 2>> >>
    /\ Len(rows) = 4 /\ rows[4][4] = 2 /\ rows[4][5] = 3
    /\ rows[4][2] = SlowVal(2) /\ rows[4][3] = FastVal(2)

\* ---- C23 ------------------------------------------------------------
\* the phase of the call at program point p: 0 Idle (no run open),
\* 1 Assembling, 2 Running, 3 Finalizing, 4 Closed
PhaseAt(p) ==
    CASE p \in {"idle", "install", "open"}                    -> 0
      [] p \in {"assemble", "prov", "start"}                  -> 1
      [] p \in {"fin", "img", "close"}                        -> 3
      [] p \in {"restore", "ret", "returned"}                 -> 4
      [] OTHER                                                -> 2

\* the loop the call is about to enter has no iteration
EmptyLoop == IF TwoD THEN slow_v = <<>> ELSE fast_v = <<>>

\* C23: a call of watch, sweep, megasweep, sweep_vna_1d or sweep_vna_2d
\* that is not ended by an exception moves through Idle, Assembling,
\* Running, Finalizing, Closed in that order, one phase at a time and
\* never back (a loop over an empty setpoint list being a Running phase
\* without a step); rows reach the writer and the plotter only in Running,
\* with metadata['columns'] set, the plotter's columns set to it, and
\* end_time not yet recorded.
C23_PhaseOrder ==
    /\ [][ (Interruptible /\ pc # "raised" /\ pc' \notin {"raised", "idle"})
           => /\ \/ PhaseAt(pc') = PhaseAt(pc)
                 \/ PhaseAt(pc') = PhaseAt(pc) + 1
                 \/ (pc = "start" /\ pc' = "fin" /\ EmptyLoop)
              /\ (rows' # rows \/ plotted' # plotted)
                   => /\ PhaseAt(pc) = 2 /\ PhaseAt(pc') = 2
                      /\ HasKey("columns")
                      /\ plot_cols = << metadata["columns"] >>
                      /\ ~HasKey("end_time") ]_vars
    /\ []((Interruptible /\ HasKey("end_time")) => pc \notin
            {"idle", "install", "open", "assemble", "prov", "start", "set",
             "sset", "fset", "smeas", "whead", "tact", "tread", "zip",
             "meas", "wadd", "padd", "chk", "ochk", "fin"})

C23_Witness ==
    /\ fn = "sweep_vna_2d" /\ pc = "returned" /\ ~signalled
    /\ Len(slow_v) = 2 /\ Len(rows) = 4 /\ HasKey("end_time")

\* ---- C24 ------------------------------------------------------------
\* the index of the first followed parameter of instrument inst
FirstFollowed(inst) ==
    CHOOSE n \in 1..Len(params) :
        /\ InstrumentOf(params[n][1]) = inst
        /\ \A x \in 1..(n - 1) : InstrumentOf(params[x][1]) # inst

\* how often the provenance read number n of instrument inst is in the log
TimesRead(inst, n) ==
    Cardinality({ k \in 1..Len(io) : io[k] = Ev("read", inst, n) })

\* the log entry is a provenance read (a read of an instrument's setting)
IsProvenanceRead(e) == e.op = "read" /\ e.who \in {"ZM2376_1", "SR830_1"}

\* C24: in sweep and megasweep 'instruments used' lists the instruments of
\* the followed parameters, each once, in the order of their first
\* followed parameter; once provenance is captured the five settings of
\* the impedance analyzer (three correction states, two variable labels)
\* and the two of the lock-in (frequency, amplitude) have each been read
\* exactly once if the instrument is listed and never otherwise, and every
\* provenance read comes before any setpoint write, parameter read or row.
C24_Provenance ==
    (fn \in {"sweep", "megasweep"} /\ HasKey("instruments used"))
    => LET used == metadata["instruments used"]
       IN  /\ NoRepeat(used)
           /\ { used[k] : k \in 1..Len(used) }
                = { InstrumentOf(params[n][1]) : n \in 1..Len(params) }
           /\ \A a, b \in 1..Len(used) :
                a < b => FirstFollowed(used[a]) < FirstFollowed(used[b])
           /\ \A n \in 1..5 :
                LET due == IF \E k \in 1..Len(used) : used[k] = "ZM2376_1"
                             THEN 1 ELSE 0
                IN  /\ TimesRead("ZM2376_1", n) <= due
                    /\ pc \notin {"prov", "raised"}
                         => TimesRead("ZM2376_1", n) = due
           /\ \A n \in 6..7 :
                LET due == IF \E k \in 1..Len(used) : used[k] = "SR830_1"
                             THEN 1 ELSE 0
                IN  /\ TimesRead("SR830_1", n) <= due
                    /\ pc \notin {"prov", "raised"}
                         => TimesRead("SR830_1", n) = due
           /\ \A k \in 1..Len(io) :
                IsProvenanceRead(io[k])
                  => /\ io[k].val \in 1..7
                     /\ \A m \in 1..(k - 1) : IsProvenanceRead(io[m])
           /\ pc \notin {"prov", "raised"}
                => /\ HasKey("calibrations (ZM2376_1)")
                        <=> \E k \in 1..Len(used) : used[k] = "ZM2376_1"
                   /\ HasKey("frequency (SR830_1)")
                        <=> \E k \in 1..Len(used) : used[k] = "SR830_1"

C24_Witness ==
    /\ fn = "sweep" /\ pc = "returned" /\ Len(rows) = 2
    /\ params = << <<"sr_x", 2>>, <<"zm_r", 2>> >>
    /\ metadata["instruments used"] = << "SR830_1", "ZM2376_1" >>
    /\ io[1] = Ev("read", "SR830_1", 6) /\ io[3] = Ev("read", "ZM2376_1", 1)

\* ---- C25 ------------------------------------------------------------
\* the call has ended: by return, or by an exception
Ended == pc \in {"returned", "raised"}

\* watch has written as many rows as the model follows
WatchCapped == fn = "watch" /\ pc = "whead" /\ Len(rows) >= MaxWatchRows

TypeTag ==
    CASE fn = "measure"      -> "0D"
      [] fn = "watch"        -> "1D"
      [] fn = "sweep"        -> "1D"
      [] fn = "megasweep"    -> "2D"
      [] fn = "sweep_vna_1d" -> "1D_VNA_Sweep"
      [] OTHER               -> "2D_VNA_Sweep"

\* C26 as claimed: the metadata of every returned SweepResult, measure's
\* included, holds the topology tag, the columns, a start stamp, an end
\* stamp and the interruption flag.
C26_Original ==
    pc = "returned"
    => {"type", "columns", "start_time", "end_time", "interrupted"}
         \subseteq DOMAIN metadata

\* C26 as amended: the metadata returned by watch, sweep, megasweep,
\* sweep_vna_1d and sweep_vna_2d holds the topology tag, the columns,
\* start_time, end_time and the boolean interrupted; the metadata returned
\* by measure holds the topology tag '0D', the columns and the single
\* stamp 'time', and neither start_time, end_time nor interrupted.
C26_ResultMetadata ==
    pc = "returned"
    => /\ {"type", "columns"} \subseteq DOMAIN metadata
       /\ metadata["type"] = TypeTag
       /\ Interruptible
            => /\ {"start_time", "end_time", "interrupted"} \subseteq DOMAIN metadata
               /\ metadata["interrupted"] \in BOOLEAN
               /\ metadata["start_time"] < metadata["end_time"]
       /\ fn = "measure"
            => /\ HasKey("time")
               /\ DOMAIN metadata \cap {"start_time", "end_time", "interrupted"} = {}

C26_Witness ==
    /\ fn = "measure" /\ pc = "returned" /\ Len(rows) = 1
    /\ DOMAIN metadata = {"type", "columns", "time"}

\* ---- C27 ------------------------------------------------------------
\* the run has no (slow, fast) point to visit
NoPoint == fast_v = <<>> \/ (TwoD /\ slow_v = <<>>)

\* C27: in the five interruptible entry points interrupted = true implies
\* at least one row (and, in sweep and megasweep, a written setpoint); a
\* finalized run first signalled while it had no row holds at most one
\* row, and holds one exactly when interrupted = true: the signal does not
\* stop it before the first point is written, measured and persisted; a
\* finalized run without a point to visit has no row and interrupted =
\* false, signal or not.
C27_InterruptedHasRow ==
    (Interruptible /\ HasKey("interrupted"))
    => /\ metadata["interrupted"] = TRUE
            => /\ Len(rows) >= 1
               /\ fn \in {"sweep", "megasweep"} => Written("p1") # <<>>
       /\ (Finalized /\ signalled /\ sigRows = 0)
            => /\ Len(rows) <= 1
               /\ Len(rows) = 1 <=> metadata["interrupted"] = TRUE
       /\ (Finalized /\ fn # "watch" /\ NoPoint)
            => (rows = <<>> /\ metadata["interrupted"] = FALSE)

C27_Witness ==
    /\ fn = "sweep" /\ pc = "returned" /\ signalled /\ sigAt = "assemble"
    /\ Len(fast_v) = 2 /\ Len(rows) = 1 /\ metadata["interrupted"] = TRUE

\* ---- C28 ------------------------------------------------------------
\* C28: a call of sweep whose first signal arrives after the loop, during
\* finalization or release and before line 49 restores the handler, has
\* all M rows in setpoint order and interrupted = false, then and when it
\* returns: that signal only sets the flag, which nothing reads any more,
\* and no exception reaches the caller unless a further signal arrives
\* once the handler is restored.
C28_LateSignal ==
    (fn = "sweep" /\ signalled /\ sigAt \in {"fin", "img", "close", "restore"})
    => /\ interrupt_requested
       /\ Len(rows) = Len(fast_v)
       /\ Column(2) = fast_v
       /\ sigRows = Len(rows)
       /\ metadata["interrupted"] = FALSE
       /\ ~brokeOut
       /\ pc \in {"fin", "img", "close", "restore", "ret", "returned", "raised"}
       /\ pc = "raised" => (exc = "KeyboardInterrupt" /\ handler # "handler")

C28_Witness ==
    /\ fn = "sweep" /\ pc = "returned" /\ signalled /\ sigAt = "fin"
    /\ Len(rows) = 2 /\ metadata["interrupted"] = FALSE
    /\ interrupt_requested /\ exc = "none"

\* ---- C29 ------------------------------------------------------------
\* the rows of a run that visits all its points
AllRows ==
    CASE fn = "sweep"        -> Len(fast_v)
      [] fn = "sweep_vna_1d" -> Len(fast_v)
      [] OTHER               -> Len(slow_v) * Len(fast_v)

\* C29: whatever the flag held when the wrapper was entered, a call of an
\* interruptible entry point during which no signal has arrived has the
\* flag false from before the handler is installed on, never leaves a
\* loop on the flag, keeps interrupted = false, and when finalized has
\* visited all its points (watch: has run until its max_duration).
C29_FlagResetOnEntry ==
    (Interruptible /\ ~signalled)
    => /\ interrupt_requested = FALSE
       /\ ~brokeOut
       /\ HasKey("interrupted") => metadata["interrupted"] = FALSE
       /\ Finalized
            => IF fn = "watch"
                 THEN max_duration # -1 /\ elapsed >= max_duration
                 ELSE Len(rows) = AllRows

C29_Witness ==
    /\ fn = "megasweep" /\ pc = "returned" /\ flag_on_entry /\ ~signalled
    /\ Len(rows) = 4 /\ metadata["interrupted"] = FALSE

\* ---- C30 ------------------------------------------------------------
\* writes of the slow setpoint in the log
SlowWrites ==
    Cardinality({ k \in 1..Len(io) : io[k].op = "write" /\ io[k].who = "p0" })

\* reads of the n-th followed parameter in the log, and the number of
\* times it is registered
ReadsOf(n) ==
    Cardinality({ k \in 1..Len(io) : io[k] = Ev("read", params[n][1], 0) })

Registered(n) ==
    Cardinality({ m \in 1..Len(params) : params[m][1] = params[n][1] })

\* C30: in sweep_vna_2d each write of the slow setpoint is followed at
\* once by one read of each followed parameter in registration order, and
\* these by the activation of the first trace; there is no other read of
\* a followed parameter, every row carries at positions 4.. the values
\* kept in slow_measurement, and a finalized run in which no signal
\* arrived has read each followed parameter once per slow setpoint.  In
\* sweep_vna_1d each row handed to the writer comes right after one read
\* of each followed parameter, and there is no other such read.
C30_SlowMeasurement ==
    LET N == Len(params)
    IN  /\ fn = "sweep_vna_2d"
            => /\ \A k \in 1..Len(io) :
                    ( /\ io[k].op = "write" /\ io[k].who = "p0"
                      /\ (k < Len(io) \/ pc \notin {"smeas", "raised"}) )
                    => /\ k + N <= Len(io)
                       /\ \A n \in 1..N :
                            io[k + n] = Ev("read", params[n][1], 0)
                       /\ k + N < Len(io)
                            => io[k + N + 1].op = "activate"
               /\ ParamReads
                    = N * (SlowWrites
                             - (IF io # <<>> /\ io[Len(io)].op = "write"
                                             /\ io[Len(io)].who = "p0"
                                  THEN 1 ELSE 0))
               /\ \A r \in 1..Len(rows) :
                    /\ Len(rows[r]) >= 3 + N
                    /\ SubSeq(rows[r], 4, 3 + N) = slow_measurement
               /\ pc = "wadd" => SubSeq(data, 4, 3 + N) = slow_measurement
               /\ (Finalized /\ ~signalled)
                    => \A n \in 1..N : ReadsOf(n) = Len(slow_v) * Registered(n)
        /\ fn = "sweep_vna_1d"
            => /\ \A k \in 1..Len(io) :
                    io[k].op = "row"
                    => /\ k > N
                       /\ \A n \in 1..N :
                            io[k - N - 1 + n] = Ev("read", params[n][1], 0)
               /\ ParamReads
                    = N * (Len(rows) + (IF pc = "wadd" THEN 1 ELSE 0))

C30_Witness ==
    /\ fn = "sweep_vna_2d" /\ pc = "returned" /\ ~signalled
    /\ params = << <<"zm_r", 2>> >>
    /\ Len(slow_v) = 2 /\ Len(rows) = 4 /\ ParamReads = 2
    /\ rows[4][4] = 2

\* ---- C31 ------------------------------------------------------------
\* str.lower() on the channel and trace names the driver gives
Lower(name) ==
    CASE name = "Ch1"  -> "ch1"
      [] name = "Trc1" -> "trc1"
      [] name = "Trc2" -> "trc2"
      [] name = "Trc3" -> "trc3"
      [] name = "Trc4" -> "trc4"
      [] OTHER         -> name

\* f'znle.{chan_name.lower()}.{trac_nam.lower()}' of a trace
BaseName(t) == (("znle." \o Lower(t[1])) \o ".") \o Lower(t[2])

\* C31: the list of trace column names has three entries per followed
\* trace, in registration order, and they are name_i, name_q, name of that
\* trace; _col_names() is the followed parameters' names in registration
\* order followed by the trace columns; a step that changes the parameter
\* list leaves the trace lists alone and a step that changes the trace
\* lists leaves the parameter list alone, and both lists only grow at
\* their end.
C31_ColumnLists ==
    /\ [] /\ Len(trace_cols) = 3 * Len(traces)
          /\ \A k \in 1..Len(traces) :
               /\ trace_cols[3 * k - 2] = BaseName(traces[k][1]) \o "_i"
               /\ trace_cols[3 * k - 1] = BaseName(traces[k][1]) \o "_q"
               /\ trace_cols[3 * k]     = BaseName(traces[k][1])
          /\ ColNames = [k \in 1..Len(params) |-> params[k][1]] \o trace_cols
    /\ [][ /\ params' # params
               => /\ UNCHANGED << traces, trace_cols >>
                  /\ Len(params') = Len(params) + 1
                  /\ IsPrefix(params, params')
           /\ << traces, trace_cols >>' # << traces, trace_cols >>
               => /\ UNCHANGED params
                  /\ Len(traces') = Len(traces) + 1
                  /\ IsPrefix(traces, traces')
                  /\ IsPrefix(trace_cols, trace_cols') ]_vars

C31_Witness ==
    /\ Len(params) = 2 /\ Len(traces) = 2
    /\ traces[1][1] = <<"Ch1", "Trc2">> /\ traces[2][1] = <<"Ch1", "Trc1">>
    /\ ColNames = << params[1][1], params[2][1],
                     "znle.ch1.trc2_i", "znle.ch1.trc2_q", "znle.ch1.trc2",
                     "znle.ch1.trc1_i", "znle.ch1.trc1_q", "znle.ch1.trc1" >>

\* ---- C32 ------------------------------------------------------------
\* C32: once the Station is built its storage root is the basedir argument
\* if one was given, otherwise the default that set_basedir had left when
\* the Station was built if there was one, otherwise the directory the
\* process was in then; no later step changes it, and every run opens its
\* writer on it, whatever set_basedir and the current directory have
\* become since.
C32_StorageRoot ==
    /\ [] (Constructed
           => /\ built.arg # NoPath => basedir = built.arg
              /\ (built.arg = NoPath /\ built.default # NoPath)
                   => basedir = built.default
              /\ (built.arg = NoPath /\ built.default = NoPath)
                   => basedir = built.dir)
    /\ [] (writerHeld => writer_root = basedir)
    /\ [][Constructed => UNCHANGED << basedir, built >>]_vars

C32_Witness ==
    /\ built = [arg |-> NoPath, default |-> "/data", dir |-> "/home"]
    /\ BASEDIR = "/lab" /\ cwd = "/work"
    /\ writerHeld /\ writer_root = "/data" /\ pc = "wadd"

\* ---- C33 ------------------------------------------------------------
\* C33: for both drivers, a state read back after a state b was set, with
\* no other set in between, is b.
C33_StateRoundTrip ==
    /\ (sent.znle.done /\ got.znle.done) => got.znle.val = sent.znle.val
    /\ (sent.zm.done /\ got.zm.done) => got.zm.val = sent.zm.val

\* ---- C34 ------------------------------------------------------------
\* the setpoint x is the frequency f
IsFreq(x, f) ==
    IF x.scale = "lin"
      THEN x.num = f * x.den
      ELSE x.num = Log10(f) * x.den

\* C34: whatever sweep type among 'LIN', 'LOG', 'CW' the analyzer is set
\* to, get_freq_setpoints does not fail and answers sweep_points
\* setpoints, the first being freq_start and the last freq_stop.
C34_FreqSetpoints ==
    setpoints # NoSetpoints
    => /\ setpoints.raised = "none"
       /\ Len(setpoints.val) = instr.sweep_points
       /\ IsFreq(setpoints.val[1], instr.freq_start)
       /\ IsFreq(setpoints.val[Len(setpoints.val)], instr.freq_stop)

====
